---- MODULE Spec2Model ----
(***************************************************************************)
(* A model of the mini-lsm storage engine (mini-lsm-starter/src).          *)
(*                                                                         *)
(* Byte strings are sequences of small naturals.  A memtable is an object  *)
(* on a heap (the Arc<MemTable> of the code) holding a finite map and a    *)
(* byte counter.  A block holds its data section as bytes, as the Block    *)
(* struct does.  The engine state is the value behind                      *)
(* Arc<RwLock<Arc<LsmStorageInner>>>.                                      *)
(***************************************************************************)
EXTENDS Integers, Sequences, FiniteSets, TLC

(***************************************************************************)
(* Bounds of the model.                                                    *)
(***************************************************************************)
\* Writes are accepted while the active memtable's byte counter stays <= MaxSize.
MaxSize == 4
\* The model's stand-in for the flush threshold of LsmStorage::put
\* (1000000 in the code), scaled to the sizes the model's keys reach.
FlushThreshold == 2
\* Messages the channel holds at most.
MaxQueue == 2

(***************************************************************************)
(* Program constants.                                                      *)
(***************************************************************************)
MIN_NUM_SST_FILES_TO_COMPACT == 2
BLOCK_SIZE == 4096
COUNT_SIZE == 2
CHECKSUM_SIZE == 0

(***************************************************************************)
(* Bytes.                                                                  *)
(***************************************************************************)
EmptyBytes == <<>>
K1 == <<1>>
K2 == <<2>>
K3 == <<3>>
V1 == <<1>>
V2 == <<2>>
\* Keys a caller passes: put asserts a non-empty key, delete takes any.
Keys == {K1, K2}
CallKeys == Keys \cup {EmptyBytes}
\* Every key of the model: K3 is a key only memtables found at the start of
\* a scan hold.
AllKeys == CallKeys \cup {K3}
Values == {V1, V2}

\* <[u8] as Ord>::cmp: lexicographic, unsigned.
BytesLess(a, b) ==
    \E i \in 1..Len(b) :
        /\ \A j \in 1..(i - 1) : j <= Len(a) /\ a[j] = b[j]
        /\ (i > Len(a) \/ a[i] < b[i])

BytesLeq(a, b) == a = b \/ BytesLess(a, b)

\* u16::to_le_bytes of (n as u16)
U16LE(n) == << (n % 65536) % 256, (n % 65536) \div 256 >>
\* u16::from_le_bytes
FromU16LE(lo, hi) == lo + 256 * hi

\* Option<T>
None == [some |-> FALSE, v |-> <<>>]
Some(x) == [some |-> TRUE, v |-> x]

\* std::ops::Bound
Unbounded == [kind |-> "Unbounded", key |-> <<>>]
Included(k) == [kind |-> "Included", key |-> k]
Excluded(k) == [kind |-> "Excluded", key |-> k]
Bounds == {Unbounded} \cup {Included(k) : k \in Keys} \cup {Excluded(k) : k \in Keys}

AboveLower(lower, k) ==
    CASE lower.kind = "Unbounded" -> TRUE
      [] lower.kind = "Included" -> BytesLeq(lower.key, k)
      [] lower.kind = "Excluded" -> BytesLess(lower.key, k)

BelowUpper(upper, k) ==
    CASE upper.kind = "Unbounded" -> TRUE
      [] upper.kind = "Included" -> BytesLeq(k, upper.key)
      [] upper.kind = "Excluded" -> BytesLess(k, upper.key)

\* The least element of a non-empty set of byte strings.
MinKey(S) == CHOOSE k \in S : \A o \in S : BytesLeq(k, o)

RECURSIVE SortedKeys(_)
SortedKeys(S) ==
    IF S = {} THEN <<>>
    ELSE LET m == MinKey(S) IN <<m>> \o SortedKeys(S \ {m})

(***************************************************************************)
(* MemTable (mem_table.rs): a SkipMap and an atomic byte counter.          *)
(***************************************************************************)
EmptyMap == [k \in {} |-> <<>>]

MemTable_create == [map |-> EmptyMap, size |-> 0]

MemTable_get(mem, key) ==
    IF key \in DOMAIN mem.map THEN Some(mem.map[key]) ELSE None

\* A faulty put that keeps the value a key already has.
MemTable_put_keeps_first(mem, key, value) ==
    [map  |-> [k \in DOMAIN mem.map \cup {key} |->
                   IF k \in DOMAIN mem.map THEN mem.map[k] ELSE value],
     size |-> mem.size + Len(key) + Len(value)]

MemTable_put(mem, key, value) ==
    [map  |-> [k \in DOMAIN mem.map \cup {key} |->
                   IF k = key THEN value ELSE mem.map[k]],
     size |-> mem.size + Len(key) + Len(value)]

\* The entries of the map in key order, as SkipMap::iter yields them.
MemTable_entries(mem) ==
    LET ks == SortedKeys(DOMAIN mem.map)
    IN  [i \in 1..Len(ks) |-> <<ks[i], mem.map[ks[i]]>>]

(***************************************************************************)
(* Block and BlockBuilder (block.rs, block/builder.rs).                    *)
(* A Block is [data, offsets, padding]; offsets are 0-based byte offsets   *)
(* into data, sequences are 1-based.                                       *)
(***************************************************************************)
BlockBuilder_new(block_size) == [cap |-> block_size, data |-> <<>>, offsets |-> <<>>]

BlockBuilder_remaining(b) ==
    LET meta_len == COUNT_SIZE + CHECKSUM_SIZE
        used == Len(b.data) + Len(b.offsets) * 2 + meta_len
    IN  b.cap - used

\* Returns [ok, builder]: ok is the bool of the code, builder the builder afterwards.
BlockBuilder_add(b, key, value) ==
    LET len == 2 + Len(key) + 2 + Len(value)
        meta_len == COUNT_SIZE + CHECKSUM_SIZE
    IN  IF Len(b.data) + len + meta_len > b.cap
        THEN [ok |-> FALSE, builder |-> b]
        ELSE [ok |-> TRUE,
              builder |-> [b EXCEPT
                  !.offsets = Append(@, Len(b.data) % 65536),
                  !.data = @ \o U16LE(Len(key)) \o key \o U16LE(Len(value)) \o value]]

BlockBuilder_is_empty(b) == b.data = <<>>

\* padding is `remaining() as u16`.
BlockBuilder_build(b) ==
    [data |-> b.data, offsets |-> b.offsets,
     padding |-> BlockBuilder_remaining(b) % 65536]

\* Block::slice_at: the length-prefixed slice that starts at byte `pos`.
Block_slice_at(block, pos) ==
    LET key_len == FromU16LE(block.data[pos + 1], block.data[pos + 2])
    IN  SubSeq(block.data, pos + 3, pos + 2 + key_len)

Block_len(block) ==
    Len(block.data) + block.padding + Len(block.offsets) * 2 + COUNT_SIZE + CHECKSUM_SIZE

\* The key of entry i (0-based) of a block.
Block_key_at(block, i) == Block_slice_at(block, block.offsets[i + 1])

\* Block::last, which SsTable::__find_block_idx calls: the key of the last
\* entry, None for a block without entries.
Block_last(block) ==
    IF block.offsets = <<>> THEN None
    ELSE Some(Block_key_at(block, Len(block.offsets) - 1))

(***************************************************************************)
(* BlockIterator (block/iterator.rs): [block, key, value, idx].            *)
(***************************************************************************)
BlockIterator_new(block) == [block |-> block, key |-> <<>>, value |-> <<>>, idx |-> 0]

BlockIterator_is_valid(it) == it.key # <<>>

BlockIterator_seek_to(it, idx) ==
    LET pos == it.block.offsets[idx + 1]
        key == Block_slice_at(it.block, pos)
    IN  [it EXCEPT !.idx = idx, !.key = key,
                   !.value = Block_slice_at(it.block, pos + 2 + Len(key))]

BlockIterator_seek_to_first(it) == BlockIterator_seek_to(it, 0)

BlockIterator_create_and_seek_to_first(block) ==
    BlockIterator_seek_to_first(BlockIterator_new(block))

BlockIterator_next(it) ==
    IF Len(it.block.offsets) = it.idx + 1
    THEN [it EXCEPT !.key = <<>>, !.idx = 0]
    ELSE BlockIterator_seek_to(it, it.idx + 1)

\* The loop of seek_to_key: binary search between lo and hi.
RECURSIVE BlockIterator_seek_loop(_, _, _, _)
BlockIterator_seek_loop(it, key, lo, hi) ==
    IF lo < hi
    THEN LET mid == lo + (hi - lo) \div 2
             curr == Block_key_at(it.block, mid)
         IN  IF BytesLess(curr, key)
             THEN BlockIterator_seek_loop(it, key, mid + 1, hi)
             ELSE IF curr = key
             THEN BlockIterator_seek_to(it, mid)
             ELSE BlockIterator_seek_loop([it EXCEPT !.idx = mid], key, lo, mid)
    ELSE IF BytesLeq(key, Block_key_at(it.block, lo))
         THEN BlockIterator_seek_to(it, lo)
         ELSE [it EXCEPT !.key = <<>>]

\* A faulty seek whose search leaves out the last entry of the block.
BlockIterator_seek_to_key_short(it, key) ==
    BlockIterator_seek_loop(it, key, 0, Len(it.block.offsets) - 2)

BlockIterator_seek_to_key(it, key) ==
    BlockIterator_seek_loop(it, key, 0, Len(it.block.offsets) - 1)

BlockIterator_create_and_seek_to_key(block, key) ==
    BlockIterator_seek_to_key(BlockIterator_new(block), key)

(***************************************************************************)
(* Block::encode and Block::decode (block.rs), on bytes.                   *)
(***************************************************************************)
Zeros(n) == [i \in 1..n |-> 0]

RECURSIVE EncodeOffsets(_)
EncodeOffsets(offsets) ==
    IF offsets = <<>> THEN <<>>
    ELSE U16LE(Head(offsets)) \o EncodeOffsets(Tail(offsets))

\* A faulty encode that writes the offsets ahead of the padding.
Block_encode_offsets_first(block) ==
    block.data \o EncodeOffsets(block.offsets) \o Zeros(block.padding)
        \o U16LE(Len(block.offsets))

Block_encode(block) ==
    block.data \o Zeros(block.padding) \o EncodeOffsets(block.offsets)
        \o U16LE(Len(block.offsets))

\* The loop of decode that rebuilds the data section entry by entry.
RECURSIVE DecodeRaw(_, _, _)
DecodeRaw(data, raw, count) ==
    IF count = 0 THEN raw
    ELSE LET key_len == FromU16LE(data[Len(raw) + 1], data[Len(raw) + 2])
             raw1 == raw \o SubSeq(data, Len(raw) + 1, Len(raw) + 2 + key_len)
             val_len == FromU16LE(data[Len(raw1) + 1], data[Len(raw1) + 2])
             raw2 == raw1 \o SubSeq(data, Len(raw1) + 1, Len(raw1) + 2 + val_len)
         IN  DecodeRaw(data, raw2, count - 1)

Block_decode(data) ==
    LET n == Len(data)
        count == FromU16LE(data[n - CHECKSUM_SIZE - COUNT_SIZE + 1],
                           data[n - CHECKSUM_SIZE - COUNT_SIZE + 2])
        raw == DecodeRaw(data, <<>>, count)
        off == SubSeq(data, n - CHECKSUM_SIZE - COUNT_SIZE - count * 2 + 1,
                      n - CHECKSUM_SIZE - COUNT_SIZE)
        offsets == [i \in 1..count |-> FromU16LE(off[2 * i - 1], off[2 * i])]
    IN  [data |-> raw, offsets |-> offsets,
         padding |-> (n - Len(raw) - Len(off) - COUNT_SIZE - CHECKSUM_SIZE) % 65536]

(***************************************************************************)
(* SsTableBuilder and SsTable (table/builder.rs, table.rs).                *)
(* `fs` maps an sst id to the file {id}.sst.  A file is held as the        *)
(* sections written to it, [blocks, block_metas, block_meta_offset]; its   *)
(* bytes are FileBytes(file), and a read encodes the section it falls in.  *)
(* An SsTable is [id, file, block_metas, block_meta_offset], file being    *)
(* the id under which its FileObject was created.                          *)
(***************************************************************************)
U32LE(n) ==
    << n % 256, (n \div 256) % 256, (n \div 65536) % 256, (n \div 16777216) % 256 >>

SsTableBuilder_new(block_size) ==
    [meta |-> <<>>, builder |-> BlockBuilder_new(block_size), blocks |-> <<>>,
     block_size |-> block_size, offset |-> 0]

\* Returns [panic, sb].  The body of the `while` finalises the current block;
\* BlockBuilder::build of an empty builder gives a block whose slice_at(0)
\* indexes an empty data section, which panics.
RECURSIVE SsTableBuilder_add(_, _, _)
SsTableBuilder_add(sb, key, value) ==
    LET r == BlockBuilder_add(sb.builder, key, value)
    IN  IF r.ok THEN [panic |-> FALSE, sb |-> [sb EXCEPT !.builder = r.builder]]
        ELSE IF BlockBuilder_is_empty(sb.builder) THEN [panic |-> TRUE, sb |-> sb]
        ELSE LET block == BlockBuilder_build(sb.builder)
             IN  SsTableBuilder_add(
                     [sb EXCEPT
                         !.builder = BlockBuilder_new(sb.block_size),
                         !.meta = Append(@, [offset |-> sb.offset,
                                             first_key |-> Block_slice_at(block, 0)]),
                         !.offset = @ + Block_len(block),
                         !.blocks = Append(@, block)],
                     key, value)

RECURSIVE EncodeBlocks(_)
EncodeBlocks(blocks) ==
    IF blocks = <<>> THEN <<>>
    ELSE Block_encode(Head(blocks)) \o EncodeBlocks(Tail(blocks))

\* BlockMeta::encode_block_meta
RECURSIVE BlockMeta_encode_block_meta(_)
BlockMeta_encode_block_meta(block_meta) ==
    IF block_meta = <<>> THEN <<>>
    ELSE LET meta == Head(block_meta)
         IN  U32LE(meta.offset) \o U16LE(Len(meta.first_key)) \o meta.first_key
                 \o BlockMeta_encode_block_meta(Tail(block_meta))

\* The bytes of a file: what SsTableBuilder::build puts in `buf`.
FileBytes(file) ==
    EncodeBlocks(file.blocks) \o BlockMeta_encode_block_meta(file.block_metas)
        \o U32LE(file.block_meta_offset)

\* SsTableBuilder::build (called as `export` by the engine): returns the
\* SsTable and the file handed to FileObject::create.
SsTableBuilder_build(sb, id) ==
    LET last == IF BlockBuilder_is_empty(sb.builder) THEN <<>>
                ELSE <<BlockBuilder_build(sb.builder)>>
        blocks == sb.blocks \o last
        block_metas == sb.meta \o
            [i \in 1..Len(last) |->
                [offset |-> sb.offset, first_key |-> Block_slice_at(last[i], 0)]]
        offset == sb.offset + (IF last = <<>> THEN 0 ELSE Block_len(last[1]))
    IN  [sst  |-> [id |-> id, file |-> id, block_metas |-> block_metas,
                   block_meta_offset |-> offset],
         data |-> [blocks |-> blocks, block_metas |-> block_metas,
                   block_meta_offset |-> offset]]

\* FileObject::create: the file at `path` holds `data` from offset 0.  (The
\* file is opened without truncation; bytes an older, longer file leaves
\* past the end of `data` are not kept here, no SsTable reads past its own
\* block_meta_offset.)
FileObject_create(fs, path, data) ==
    [p \in DOMAIN fs \cup {path} |-> IF p = path THEN data ELSE fs[p]]

\* The offset at which block i (1-based) of a file starts.
RECURSIVE BlockStart(_, _)
BlockStart(file, i) ==
    IF i = 1 THEN 0 ELSE BlockStart(file, i - 1) + Block_len(file.blocks[i - 1])

\* FileObject::read of the `len` bytes at `offset`, for the byte range of one
\* encoded block.
FileObject_read(file, offset, len) ==
    LET i == CHOOSE i \in 1..Len(file.blocks) :
                 BlockStart(file, i) = offset /\ Block_len(file.blocks[i]) = len
    IN  Block_encode(file.blocks[i])

SsTable_num_of_blocks(sst) == Len(sst.block_metas)

\* SsTable::read_block; block_idx is 0-based.
SsTable_read_block(sst, fs, block_idx) ==
    LET lo == sst.block_metas[block_idx + 1].offset
        hi == IF block_idx + 2 <= Len(sst.block_metas)
              THEN sst.block_metas[block_idx + 2].offset
              ELSE sst.block_meta_offset
    IN  Block_decode(FileObject_read(fs[sst.file], lo, hi - lo))

\* SsTable::read_block_cached with the engine's BlockCache, a map from
\* (sst id, block index) to a block: try_get_with returns the block the
\* cache holds under the key, else it reads the block and keeps it.
\* Returns [block, cache].
SsTable_read_block_cached(sst, cache, fs, block_idx) ==
    LET k == <<sst.id, block_idx>>
    IN  IF k \in DOMAIN cache THEN [block |-> cache[k], cache |-> cache]
        ELSE LET block == SsTable_read_block(sst, fs, block_idx)
             IN  [block |-> block, cache |-> (k :> block) @@ cache]

\* MemTable::to_sst: feeds the entries in key order to SsTableBuilder::add.
RECURSIVE AddAll(_, _)
AddAll(r, entries) ==
    IF entries = <<>> \/ r.panic THEN r
    ELSE AddAll(SsTableBuilder_add(r.sb, Head(entries)[1], Head(entries)[2]),
                Tail(entries))

MemTable_to_sst(mem, block_size) ==
    AddAll([panic |-> FALSE, sb |-> SsTableBuilder_new(block_size)],
           MemTable_entries(mem))

Max(a, b) == IF a > b THEN a ELSE b
Min(a, b) == IF a < b THEN a ELSE b

\* SsTable::__find_block_idx: [ok, idx] for Result<usize, usize>.  The
\* binary search is Ok at the block whose first_key equals the key, else Err
\* at the insertion point, which the closure of map_err then adjusts.
\* A faulty search that never looks into the block ahead of the insertion
\* point.
SsTable___find_block_idx_no_last(sst, fs, key) ==
    LET n == SsTable_num_of_blocks(sst)
        hit == {i \in 0..(n - 1) : sst.block_metas[i + 1].first_key = key}
        insert == Cardinality({i \in 0..(n - 1) :
                                  BytesLess(sst.block_metas[i + 1].first_key, key)})
    IN  IF hit # {} THEN [ok |-> TRUE, idx |-> CHOOSE i \in hit : TRUE]
        ELSE IF insert = n THEN [ok |-> FALSE, idx |-> Max(0, insert - 1)]
        ELSE [ok |-> FALSE, idx |-> insert]

SsTable___find_block_idx(sst, fs, key) ==
    LET n == SsTable_num_of_blocks(sst)
        hit == {i \in 0..(n - 1) : sst.block_metas[i + 1].first_key = key}
        insert == Cardinality({i \in 0..(n - 1) :
                                  BytesLess(sst.block_metas[i + 1].first_key, key)})
    IN  IF hit # {} THEN [ok |-> TRUE, idx |-> CHOOSE i \in hit : TRUE]
        ELSE IF insert = n THEN [ok |-> FALSE, idx |-> Max(0, insert - 1)]
        ELSE IF BytesLess(key, sst.block_metas[insert + 1].first_key)
        THEN LET last == Block_last(SsTable_read_block(sst, fs, Max(0, insert - 1)))
             IN  IF last.some /\ BytesLeq(key, last.v)
                 THEN [ok |-> FALSE, idx |-> Max(0, insert - 1)]
                 ELSE [ok |-> FALSE, idx |-> insert]
        ELSE [ok |-> FALSE, idx |-> insert]

SsTable_find_block_idx(sst, fs, key) == SsTable___find_block_idx(sst, fs, key).idx

(***************************************************************************)
(* SsTableIterator (table/iterator.rs).                                    *)
(***************************************************************************)
SsTableIterator_create_and_seek_to_first(table, fs) ==
    [tag |-> "sst", table |-> table, blk_idx |-> 0,
     iter |-> BlockIterator_create_and_seek_to_first(SsTable_read_block(table, fs, 0)),
     lower |-> Unbounded, upper |-> Unbounded, in_bounds |-> TRUE]

\* The struct create_and_seek_to_key returns for the block index it computed.
SsTableIterator_at_block(table, fs, key, blk_idx) ==
    [tag |-> "sst", table |-> table, blk_idx |-> blk_idx,
     iter |-> BlockIterator_create_and_seek_to_key(
                  SsTable_read_block(table, fs, blk_idx), key),
     lower |-> Unbounded, upper |-> Unbounded, in_bounds |-> TRUE]

SsTableIterator_create_and_seek_to_key(table, fs, key) ==
    SsTableIterator_at_block(table, fs, key,
        Min(SsTable_find_block_idx(table, fs, key), SsTable_num_of_blocks(table) - 1))

\* The Excluded arm of by_range: steps over the key the iterator was sought to.
SsTableIterator_exclude(t, key) ==
    IF BlockIterator_is_valid(t.iter) /\ t.iter.key = key
    THEN [t EXCEPT !.iter = BlockIterator_next(t.iter)]
    ELSE t

SsTableIterator_by_range(table, fs, lower, upper) ==
    LET this ==
          CASE lower.kind = "Included" ->
                 SsTableIterator_create_and_seek_to_key(table, fs, lower.key)
            [] lower.kind = "Excluded" ->
                 SsTableIterator_exclude(
                     SsTableIterator_create_and_seek_to_key(table, fs, lower.key),
                     lower.key)
            [] lower.kind = "Unbounded" ->
                 SsTableIterator_create_and_seek_to_first(table, fs)
    IN  [this EXCEPT !.upper = upper]

SsTableIterator_is_valid(it) == it.in_bounds /\ BlockIterator_is_valid(it.iter)

\* next after `self.iter.next()` has left the block iterator as `iter`.
SsTableIterator_after_next(it, fs, iter) ==
    IF BlockIterator_is_valid(iter)
    THEN [it EXCEPT !.iter = iter,
                    !.in_bounds = IF BelowUpper(it.upper, iter.key) THEN @ ELSE FALSE]
    ELSE IF it.blk_idx + 1 = SsTable_num_of_blocks(it.table)
    THEN [it EXCEPT !.iter = iter, !.blk_idx = @ + 1, !.in_bounds = FALSE]
    ELSE [it EXCEPT !.blk_idx = @ + 1,
                    !.iter = BlockIterator_create_and_seek_to_first(
                                 SsTable_read_block(it.table, fs, it.blk_idx + 1))]

SsTableIterator_next(it, fs) ==
    SsTableIterator_after_next(it, fs, BlockIterator_next(it.iter))

(***************************************************************************)
(* MemTableIterator (mem_table.rs): a range cursor over the shared SkipMap *)
(* of memtable `mem` of the heap, and the entry it stands on.  The cursor  *)
(* of crossbeam's Range is the entry last yielded; with no such entry      *)
(* next() starts from the lower bound.                                     *)
(***************************************************************************)
\* A faulty next that runs past the upper bound.
MemTableIterator_next_unbounded(it, mems) ==
    LET map == mems[it.mem].map
        after == IF it.curr.some
                 THEN {k \in DOMAIN map : BytesLess(it.curr.v[1], k)}
                 ELSE {k \in DOMAIN map : AboveLower(it.lower, k)}
    IN  IF after = {} THEN [it EXCEPT !.curr = None]
        ELSE [it EXCEPT !.curr = Some(<<MinKey(after), map[MinKey(after)]>>)]

MemTableIterator_next(it, mems) ==
    LET map == mems[it.mem].map
        after == IF it.curr.some
                 THEN {k \in DOMAIN map : BytesLess(it.curr.v[1], k)}
                 ELSE {k \in DOMAIN map : AboveLower(it.lower, k)}
    IN  IF after = {} THEN [it EXCEPT !.curr = None]
        ELSE LET k == MinKey(after)
             IN  IF BelowUpper(it.upper, k)
                 THEN [it EXCEPT !.curr = Some(<<k, map[k]>>)]
                 ELSE [it EXCEPT !.curr = None]

\* MemTable::scan; `mem` is the heap index of the memtable.
MemTable_scan(mem, mems, lower, upper) ==
    MemTableIterator_next(
        [tag |-> "mem", mem |-> mem, lower |-> lower, upper |-> upper, curr |-> None],
        mems)

MemTableIterator_is_valid(it) == it.curr.some

(***************************************************************************)
(* StorageIterator (iterators.rs) for the two kinds of layer iterator.     *)
(***************************************************************************)
Iter_is_valid(it) ==
    IF it.tag = "mem" THEN MemTableIterator_is_valid(it) ELSE SsTableIterator_is_valid(it)

Iter_key(it) == IF it.tag = "mem" THEN it.curr.v[1] ELSE it.iter.key

Iter_value(it) == IF it.tag = "mem" THEN it.curr.v[2] ELSE it.iter.value

Iter_next(it, mems, fs) ==
    IF it.tag = "mem" THEN MemTableIterator_next(it, mems) ELSE SsTableIterator_next(it, fs)

(***************************************************************************)
(* MergeIterator (iterators/merge_iterator.rs): [iters, current].  The     *)
(* BinaryHeap of IterWrapper is a set; its top is the wrapper with the     *)
(* least (key, idx), the order IterWrapper::partial_cmp reverses.          *)
(***************************************************************************)
\* A faulty order that, of two wrappers on the same key, puts the one with
\* the larger index first.
IterWrapper_less_larger_idx(x, y) ==
    \/ BytesLess(Iter_key(x.inner_iter), Iter_key(y.inner_iter))
    \/ Iter_key(x.inner_iter) = Iter_key(y.inner_iter) /\ x.idx > y.idx

IterWrapper_less(x, y) ==
    \/ BytesLess(Iter_key(x.inner_iter), Iter_key(y.inner_iter))
    \/ Iter_key(x.inner_iter) = Iter_key(y.inner_iter) /\ x.idx < y.idx

HeapTop(heap) == CHOOSE w \in heap : \A o \in heap : o = w \/ IterWrapper_less(w, o)

\* BinaryHeap::pop: [top, rest].
HeapPop(heap) ==
    IF heap = {} THEN [top |-> None, rest |-> {}]
    ELSE [top |-> Some(HeapTop(heap)), rest |-> heap \ {HeapTop(heap)}]

\* Iterator::filter: the elements of a sequence of iterators that are valid.
RECURSIVE FilterValid(_)
FilterValid(iters) ==
    IF iters = <<>> THEN <<>>
    ELSE IF Iter_is_valid(Head(iters))
    THEN <<Head(iters)>> \o FilterValid(Tail(iters))
    ELSE FilterValid(Tail(iters))

\* `.enumerate().map(..)` into a BinaryHeap.
MergeIterator_heap(valid) ==
    {[idx |-> i - 1, inner_iter |-> valid[i]] : i \in 1..Len(valid)}

\* `self.current = heap.pop()`, p being what the pop gives.
MergeIterator_popped(p) == [iters |-> p.rest, current |-> p.top]

MergeIterator_create(iters) ==
    MergeIterator_popped(HeapPop(MergeIterator_heap(FilterValid(iters))))

MergeIterator_is_valid(m) == m.current.some /\ Iter_is_valid(m.current.v.inner_iter)

MergeIterator_key(m) == Iter_key(m.current.v.inner_iter)

MergeIterator_value(m) == Iter_value(m.current.v.inner_iter)

\* The `while` of next: advances every heap iterator that stands on the
\* current key.
\* `w.inner_iter.next()` on a wrapper.
IterWrapper_next(w, mems, fs) == [w EXCEPT !.inner_iter = Iter_next(@, mems, fs)]

\* `if w.inner_iter.is_valid() { heap.push(w) }`
MergeIterator_push_valid(heap, w) ==
    IF Iter_is_valid(w.inner_iter) THEN heap \cup {w} ELSE heap

\* One turn of the `while`: p is what `self.iters.pop()` gives.
MergeIterator_skip_one(m, p, mems, fs) ==
    [m EXCEPT !.iters = MergeIterator_push_valid(p.rest, IterWrapper_next(p.top.v, mems, fs))]

RECURSIVE MergeIterator_skip_same(_, _, _)
MergeIterator_skip_same(m, mems, fs) ==
    IF /\ MergeIterator_is_valid(m)
       /\ m.iters # {}
       /\ Iter_key(HeapTop(m.iters).inner_iter) = MergeIterator_key(m)
    THEN MergeIterator_skip_same(
             MergeIterator_skip_one(m, HeapPop(m.iters), mems, fs), mems, fs)
    ELSE m

\* next after its `while`: advances current, pushes it back if it is still
\* valid and pops the new current.
MergeIterator_next_current(m, mems, fs) ==
    MergeIterator_popped(HeapPop(
        MergeIterator_push_valid(m.iters, IterWrapper_next(m.current.v, mems, fs))))

MergeIterator_next(m, mems, fs) ==
    MergeIterator_next_current(MergeIterator_skip_same(m, mems, fs), mems, fs)

(***************************************************************************)
(* TwoMergeIterator (iterators/two_merge_iterator.rs): [a, b, key, value]. *)
(***************************************************************************)
TwoMergeIterator_copy_from_a(t) ==
    IF MergeIterator_is_valid(t.a)
    THEN [t EXCEPT !.key = MergeIterator_key(t.a), !.value = MergeIterator_value(t.a)]
    ELSE t

TwoMergeIterator_copy_from_b(t) ==
    IF MergeIterator_is_valid(t.b)
    THEN [t EXCEPT !.key = MergeIterator_key(t.b), !.value = MergeIterator_value(t.b)]
    ELSE t

TwoMergeIterator_is_valid(t) == t.key # <<>>

\* The branches of next; a_next and b_next are what `self.a.next()` and
\* `self.b.next()` leave, read only in the branches that call them.
TwoMergeIterator_branch(t, a_next, b_next) ==
    IF MergeIterator_is_valid(t.a) /\ MergeIterator_is_valid(t.b)
    THEN IF BytesLeq(MergeIterator_key(t.a), MergeIterator_key(t.b))
         THEN [TwoMergeIterator_copy_from_a(t) EXCEPT !.a = a_next, !.b = b_next]
         ELSE [TwoMergeIterator_copy_from_b(t) EXCEPT !.b = b_next]
    ELSE IF MergeIterator_is_valid(t.a)
    THEN [TwoMergeIterator_copy_from_a(t) EXCEPT !.a = a_next]
    ELSE IF MergeIterator_is_valid(t.b)
    THEN [TwoMergeIterator_copy_from_b(t) EXCEPT !.b = b_next]
    ELSE [t EXCEPT !.key = <<>>]

TwoMergeIterator_next(t, mems, fs) ==
    TwoMergeIterator_branch(t, MergeIterator_next(t.a, mems, fs),
                               MergeIterator_next(t.b, mems, fs))

TwoMergeIterator_create(a, b, mems, fs) ==
    TwoMergeIterator_next([a |-> a, b |-> b, key |-> <<>>, value |-> <<>>], mems, fs)

(***************************************************************************)
(* LsmIterator and FusedIterator (lsm_iterator.rs).  Both only wrap the    *)
(* TwoMergeIterator, so the iterator a scan returns is that record.        *)
(***************************************************************************)
\* `while two.is_valid() && two.value().is_empty() { two.next() }`
RECURSIVE SkipTombstones(_, _, _)
SkipTombstones(t, mems, fs) ==
    IF TwoMergeIterator_is_valid(t) /\ t.value = <<>>
    THEN SkipTombstones(TwoMergeIterator_next(t, mems, fs), mems, fs)
    ELSE t

LsmIterator_is_valid(t) == TwoMergeIterator_is_valid(t)

LsmIterator_next(t, mems, fs) == SkipTombstones(TwoMergeIterator_next(t, mems, fs), mems, fs)

FusedIterator_is_valid(t) == LsmIterator_is_valid(t)

FusedIterator_next(t, mems, fs) == LsmIterator_next(t, mems, fs)

(***************************************************************************)
(* LsmStorageInner (lsm_storage.rs):                                       *)
(*   [memtable, imm_memtables, l0_sstables, levels, next_sst_id].          *)
(* memtable and imm_memtables hold heap indices (Arc<MemTable>); `mems` is *)
(* the heap.  levels[i + 1] is `levels[i]` of the code.                    *)
(***************************************************************************)
LsmStorageInner_create ==
    [memtable |-> 1, imm_memtables |-> <<>>, l0_sstables |-> <<>>, levels |-> <<>>,
     next_sst_id |-> 0]

Reverse(seq) == [i \in 1..Len(seq) |-> seq[Len(seq) + 1 - i]]

\* `.filter(|x| x.is_some()).next().flatten()` over a sequence of Options.
RECURSIVE FirstSome(_)
FirstSome(opts) ==
    IF opts = <<>> THEN None
    ELSE IF Head(opts).some THEN Head(opts) ELSE FirstSome(Tail(opts))

\* The closure get applies to each L0 SST: Some(value the block iterator
\* stands on) when __find_block_idx is Ok, None when it is Err.
LsmStorageInner_get_sst(sstable, fs, key) ==
    LET r == SsTable___find_block_idx(sstable, fs, key)
    IN  IF r.ok
        THEN Some(BlockIterator_create_and_seek_to_key(
                      SsTable_read_block(sstable, fs, r.idx), key).value)
        ELSE None

\* LsmStorageInner::get: Option<Bytes>, a tombstone being Some(<<>>).
LsmStorageInner_get(st, mems, fs, key) ==
    IF MemTable_get(mems[st.memtable], key).some
    THEN MemTable_get(mems[st.memtable], key)
    ELSE LET imm == Reverse(st.imm_memtables)
             v == FirstSome([i \in 1..Len(imm) |-> MemTable_get(mems[imm[i]], key)])
         IN  IF v.some THEN v
             ELSE LET l0 == Reverse(st.l0_sstables)
                  IN  FirstSome([i \in 1..Len(l0) |->
                                    LsmStorageInner_get_sst(l0[i], fs, key)])

\* LsmStorageInner::scan: the iterators in the order the code collects them.
LsmStorageInner_scan(st, mems, fs, lower, upper) ==
    LET mem_iters == <<MemTable_scan(st.memtable, mems, lower, upper)>> \o
            [i \in 1..Len(st.imm_memtables) |->
                MemTable_scan(st.imm_memtables[i], mems, lower, upper)]
        sst_iters == [i \in 1..Len(st.l0_sstables) |->
                         SsTableIterator_by_range(st.l0_sstables[i], fs, lower, upper)]
        two == TwoMergeIterator_create(MergeIterator_create(mem_iters),
                                       MergeIterator_create(sst_iters), mems, fs)
    IN  SkipTombstones(two, mems, fs)

\* LsmStorageInner::archive_mem_table on a clone `st`: the fresh memtable is
\* a new object of the heap.  Returns [st, mems].
LsmStorageInner_archive_mem_table(st, mems) ==
    [st   |-> [st EXCEPT !.imm_memtables = Append(@, st.memtable),
                         !.memtable = Len(mems) + 1],
     mems |-> Append(mems, MemTable_create)]

(***************************************************************************)
(* LsmStorage (lsm_storage.rs).                                            *)
(***************************************************************************)
\* A faulty get that hands out what LsmStorageInner::get found, tombstones too.
LsmStorage_get_unfiltered(st, mems, fs, key) == LsmStorageInner_get(st, mems, fs, key)

\* LsmStorage::get: a tombstone reads as None.
LsmStorage_get(st, mems, fs, key) ==
    LET opt == LsmStorageInner_get(st, mems, fs, key)
    IN  IF opt.some /\ opt.v # <<>> THEN opt ELSE None

\* A sync that installs the clone it has mutated: the archived memtable, the
\* fresh active one, the SST in L0 and the advanced next_sst_id.
LsmStorage_sync_installing(st, mems, fs, io_ok) ==
    LET a == LsmStorageInner_archive_mem_table(st, mems)
        built == SsTableBuilder_build(
                     MemTable_to_sst(mems[st.memtable], BLOCK_SIZE).sb, st.next_sst_id)
    IN  [res |-> "ok",
         st |-> [a.st EXCEPT !.l0_sstables = Append(@, built.sst),
                             !.next_sst_id = @ + 1],
         mems |-> a.mems,
         fs |-> FileObject_create(fs, st.next_sst_id, built.data),
         sst_id |-> st.next_sst_id]

\* A sync that moves the entries out of the memtable it flushes.
LsmStorage_sync_draining(st, mems, fs, io_ok) ==
    [res |-> "ok", st |-> st,
     mems |-> [mems EXCEPT ![st.memtable] = MemTable_create],
     fs |-> FileObject_create(fs, st.next_sst_id,
                SsTableBuilder_build(
                    MemTable_to_sst(mems[st.memtable], BLOCK_SIZE).sb,
                    st.next_sst_id).data),
     sst_id |-> st.next_sst_id]

\* A sync that installs a fresh active memtable and the SST in L0 and lets go
\* of the memtable it has flushed.
LsmStorage_sync_rotating(st, mems, fs, io_ok) ==
    LET built == SsTableBuilder_build(
                     MemTable_to_sst(mems[st.memtable], BLOCK_SIZE).sb, st.next_sst_id)
    IN  [res |-> "ok",
         st |-> [st EXCEPT !.memtable = Len(mems) + 1,
                           !.l0_sstables = Append(@, built.sst),
                           !.next_sst_id = @ + 1],
         mems |-> Append(mems, MemTable_create),
         fs |-> FileObject_create(fs, st.next_sst_id, built.data),
         sst_id |-> st.next_sst_id]

\* LsmStorage::sync on the installed state `st`, io_ok telling whether
\* FileObject::create succeeds.  Returns [res, st, mems, fs, sst_id]: how the
\* call ends ("ok", "err" or "panic"), the state installed behind the lock
\* when it has ended, the heap, the files and the id handed to export.
\* The code mutates a clone of the state and drops it on return, the fresh
\* memtable with it.
LsmStorage_sync(st, mems, fs, io_ok) ==
    LET next_sst_id == st.next_sst_id
        a == LsmStorageInner_archive_mem_table(st, mems)
        last == a.st.imm_memtables[Len(a.st.imm_memtables)]
        builder == MemTable_to_sst(a.mems[last], BLOCK_SIZE)
        built == SsTableBuilder_build(builder.sb, next_sst_id)
        unchanged == [st |-> st, mems |-> mems, fs |-> fs, sst_id |-> next_sst_id]
    IN  IF builder.panic THEN [res |-> "panic"] @@ unchanged
        ELSE IF ~io_ok THEN [res |-> "err"] @@ unchanged
        ELSE [res |-> "ok", st |-> st, mems |-> mems,
              fs |-> FileObject_create(fs, next_sst_id, built.data),
              sst_id |-> next_sst_id]

\* The loop of compact that copies the merged entries with a non-empty
\* value into a fresh memtable.
RECURSIVE CompactDrain(_, _, _)
CompactDrain(iter, mem, fs) ==
    IF MergeIterator_is_valid(iter)
    THEN CompactDrain(
             MergeIterator_next(iter, <<>>, fs),
             IF MergeIterator_value(iter) # <<>>
             THEN MemTable_put(mem, MergeIterator_key(iter), MergeIterator_value(iter))
             ELSE mem,
             fs)
    ELSE mem

\* LsmStorage::compact(level), `level` as the code counts it.  Returns
\* [res, st, mems, fs, sst_id] as sync does.  Indexing `levels` out of range
\* and reading block 0 of an SST without blocks panic.
LsmStorage_compact(st, mems, fs, level, io_ok) ==
    LET unchanged == [st |-> st, mems |-> mems, fs |-> fs, sst_id |-> st.next_sst_id]
    IN  IF level >= Len(st.levels) THEN [res |-> "panic"] @@ unchanged
        ELSE
        LET ssts == IF level = 0 THEN st.l0_sstables ELSE st.levels[level + 1]
            next_level == IF st.levels[level + 1] # <<>>
                          THEN <<st.levels[level + 1][1]>> ELSE <<>>
            inputs == ssts \o next_level
        IN  IF \E i \in 1..Len(inputs) : SsTable_num_of_blocks(inputs[i]) = 0
            THEN [res |-> "panic"] @@ unchanged
            ELSE
            LET iters == [i \in 1..Len(inputs) |->
                             SsTableIterator_create_and_seek_to_first(inputs[i], fs)]
                mem == CompactDrain(MergeIterator_create(iters), MemTable_create, fs)
                builder == MemTable_to_sst(mem, BLOCK_SIZE)
                next_sst_id == st.next_sst_id
                built == SsTableBuilder_build(builder.sb, next_sst_id)
            IN  IF builder.panic THEN [res |-> "panic"] @@ unchanged
                ELSE IF ~io_ok THEN [res |-> "err"] @@ unchanged
                ELSE [res |-> "ok", st |-> st, mems |-> mems,
                      fs |-> FileObject_create(fs, next_sst_id, built.data),
                      sst_id |-> next_sst_id]

(***************************************************************************)
(* The engine as a state machine.                                          *)
(***************************************************************************)
VARIABLES
    mems,     \* the heap of MemTable objects, Arc<MemTable> being an index
    inner,    \* the LsmStorageInner behind Arc<RwLock<Arc<..>>>
    fs,       \* the data directory: sst id |-> the file {id}.sst
    chan,     \* the messages in the flume channel sync_tx / sync_rx
    worker,   \* where the thread running loop_compaction stands
    iter,     \* the iterator the user holds from the last scan, if any
    ret,      \* how the last call of the user thread ended
    hist,     \* history: the value last written for each key, by put or delete
    builder,  \* a BlockBuilder used on its own, None in the engine
    table,    \* an SsTable built on its own from a memtable, None in the engine
    cursor,   \* an iterator of one block, memtable or SsTable stepped on its own
    threads   \* a second user thread inside put, a flush inside sync, the RwLock's holder

\* The variables of the components driven on their own, outside the engine.
unitvars == <<builder, table, cursor>>

\* No put is between its capture and its insert, no sync is running, the lock is free.
NoThreads == [put |-> None, sync |-> "idle", lock |-> "free", raced |-> FALSE]

vars == <<mems, inner, fs, chan, worker, iter, ret, hist, builder, table, cursor, threads>>

\* How a call ended: op is the call and key the key of a get; res is "ok",
\* "err" (an Err) or "panic"; val is the Option<Bytes> of a get.
Result(op, key, res, val) == [op |-> op, key |-> key, res |-> res, val |-> val]

\* The engine after LsmStorage::open.
EngineOpen ==
    /\ mems = <<MemTable_create>>
    /\ inner = LsmStorageInner_create
    /\ fs = [p \in {} |-> <<>>]
    /\ chan = <<>>
    /\ worker = "recv"
    /\ iter = None
    /\ threads = NoThreads
    /\ ret = Result("open", <<>>, "ok", None)
    /\ hist = [k \in AllKeys |-> None]

\* State after LsmStorage::open.
Init ==
    /\ EngineOpen
    /\ builder = None /\ table = None /\ cursor = None

\* A thread that needs the RwLock gets it unless the worker is stuck with it.
LockFree == worker # "deadlock"

\* LsmStorage::put(key, value)
Put(key, value) ==
    /\ LockFree
    /\ IF value = <<>> \/ key = <<>>
       THEN /\ ret' = Result("put", <<>>, "panic", None)
            /\ UNCHANGED <<mems, chan, hist>>
       ELSE LET mem == MemTable_put(mems[inner.memtable], key, value)
                signal == mem.size > FlushThreshold
            IN  /\ mem.size <= MaxSize
                /\ signal => Len(chan) < MaxQueue
                /\ mems' = [mems EXCEPT ![inner.memtable] = mem]
                /\ chan' = IF signal THEN Append(chan, "flush") ELSE chan
                /\ hist' = [hist EXCEPT ![key] = Some(value)]
                /\ ret' = Result("put", <<>>, "ok", None)
    /\ UNCHANGED <<inner, fs, worker, iter, builder, table, cursor, threads>>

\* LsmStorage::delete(key)
Delete(key) ==
    /\ LockFree
    /\ LET mem == MemTable_put(mems[inner.memtable], key, <<>>)
       IN  /\ mem.size <= MaxSize
           /\ mems' = [mems EXCEPT ![inner.memtable] = mem]
    /\ hist' = [hist EXCEPT ![key] = Some(<<>>)]
    /\ ret' = Result("delete", <<>>, "ok", None)
    /\ UNCHANGED <<inner, fs, chan, worker, iter, builder, table, cursor, threads>>

\* LsmStorage::get(key)
Get(key) ==
    /\ LockFree
    /\ ret' = Result("get", key, "ok", LsmStorage_get(inner, mems, fs, key))
    /\ UNCHANGED <<mems, inner, fs, chan, worker, iter, hist, builder, table, cursor, threads>>

\* The effect of a call r of sync or compact on the engine.
Install(r) ==
    /\ inner' = r.st
    /\ mems' = r.mems
    /\ fs' = r.fs

\* LsmStorage::sync() called by the user.
Sync(io_ok) ==
    /\ LockFree
    /\ LET r == LsmStorage_sync(inner, mems, fs, io_ok)
       IN  /\ Install(r)
           /\ ret' = Result("sync", <<>>, r.res, None)
    /\ UNCHANGED <<chan, worker, iter, hist, builder, table, cursor, threads>>

\* LsmStorage::compact(level) called by the user.
Compact(level, io_ok) ==
    /\ LockFree
    /\ LET r == LsmStorage_compact(inner, mems, fs, level, io_ok)
       IN  /\ Install(r)
           /\ ret' = Result("compact", <<>>, r.res, None)
    /\ UNCHANGED <<chan, worker, iter, hist, builder, table, cursor, threads>>

\* LsmStorage::scan(lower, upper)
Scan(lower, upper) ==
    /\ LockFree
    /\ iter' = Some(LsmStorageInner_scan(inner, mems, fs, lower, upper))
    /\ ret' = Result("scan", <<>>, "ok", None)
    /\ UNCHANGED <<mems, inner, fs, chan, worker, hist, builder, table, cursor, threads>>

\* FusedIterator::next on the iterator of the last scan.
IterNext ==
    /\ iter.some
    /\ iter' = Some(FusedIterator_next(iter.v, mems, fs))
    /\ ret' = Result("next", <<>>, "ok", None)
    /\ UNCHANGED <<mems, inner, fs, chan, worker, hist, builder, table, cursor, threads>>

\* LsmStorage::stop()
Stop ==
    /\ Len(chan) < MaxQueue
    /\ chan' = Append(chan, "stop")
    /\ ret' = Result("stop", <<>>, "ok", None)
    /\ UNCHANGED <<mems, inner, fs, worker, iter, hist, builder, table, cursor, threads>>

\* Drop for LsmStorage, of one handle of the engine (LsmStorage is Clone):
\* `let _ = self.stop()`, and nothing else.
Drop ==
    /\ Len(chan) < MaxQueue
    /\ chan' = Append(chan, "stop")
    /\ ret' = Result("drop", <<>>, "ok", None)
    /\ UNCHANGED <<mems, inner, fs, worker, iter, hist, builder, table, cursor, threads>>

\* loop_compaction: `for msg in self.sync_rx.iter()` takes a message; None
\* ends the thread, whose closure then drops the handle `this` it owns.
WorkerRecv ==
    /\ worker = "recv"
    /\ chan # <<>>
    /\ chan' = IF Head(chan) = "stop" THEN Append(Tail(chan), "stop") ELSE Tail(chan)
    /\ worker' = IF Head(chan) = "stop" THEN "exited" ELSE "sync"
    /\ UNCHANGED <<mems, inner, fs, iter, ret, hist, builder, table, cursor, threads>>

\* loop_compaction: `self.sync()?`; an Err is unwrapped by the thread's
\* closure, and the unwinding drops the handle `this` the closure owns.
WorkerSync(io_ok) ==
    /\ worker = "sync"
    /\ LET r == LsmStorage_sync(inner, mems, fs, io_ok)
       IN  /\ Install(r)
           /\ r.res # "ok" => Len(chan) < MaxQueue
           /\ worker' = IF r.res = "ok" THEN "check" ELSE "panicked"
           /\ chan' = IF r.res = "ok" THEN chan ELSE Append(chan, "stop")
    /\ UNCHANGED <<iter, ret, hist, builder, table, cursor, threads>>

\* loop_compaction: with the write lock held, the checks of the L0 and level
\* sizes.  compact takes the read lock of the RwLock this thread holds for
\* writing, which never returns.
WorkerCheck ==
    /\ worker = "check"
    /\ worker' = IF \/ Len(inner.l0_sstables) = MIN_NUM_SST_FILES_TO_COMPACT
                    \/ \E i \in 1..Len(inner.levels) :
                           Len(inner.levels[i]) = MIN_NUM_SST_FILES_TO_COMPACT
                 THEN "deadlock" ELSE "recv"
    /\ UNCHANGED <<mems, inner, fs, chan, iter, ret, hist, builder, table, cursor, threads>>

\* The calls on the engine and the steps of its worker.
Next ==
    \/ \E key \in CallKeys, value \in Values \cup {<<>>} : Put(key, value)
    \/ \E key \in CallKeys : Delete(key)
    \/ \E key \in CallKeys : Get(key)
    \/ \E io_ok \in BOOLEAN : Sync(io_ok)
    \/ \E level \in 0..1, io_ok \in BOOLEAN : Compact(level, io_ok)
    \/ Stop
    \/ Drop
    \/ WorkerRecv
    \/ \E io_ok \in BOOLEAN : WorkerSync(io_ok)
    \/ WorkerCheck

Spec == Init /\ [][Next]_vars

\* The memtable that holds the entries of `map`, each put once.
RECURSIVE PutAll(_, _)
PutAll(mem, entries) ==
    IF entries = <<>> THEN mem
    ELSE PutAll(MemTable_put(mem, Head(entries)[1], Head(entries)[2]), Tail(entries))

MemOf(map) == PutAll(MemTable_create, MemTable_entries([map |-> map, size |-> 0]))

\* A user iterating a scan while the engine is written and flushed.  The
\* ranges the user scans have a bound of each kind on either side.
ScanRanges ==
    {r \in Bounds \X Bounds : r[1].kind = "Unbounded" \/ r[2].kind = "Unbounded"}

ScanNext ==
    \/ \E key \in Keys : Put(key, V2)
    \/ \E key \in CallKeys : Delete(key)
    \/ \E range \in ScanRanges : Scan(range[1], range[2])
    \/ IterNext
    \/ \E io_ok \in BOOLEAN : Sync(io_ok)
    \/ \E level \in 0..1 : Compact(level, TRUE)
    \/ WorkerRecv
    \/ \E io_ok \in BOOLEAN : WorkerSync(io_ok)
    \/ WorkerCheck

\* The engine after open and some puts and deletes, none of the empty key:
\* the active memtable holds any entries of K1, K2 and K3.
ScanInit ==
    \E S \in SUBSET (Keys \cup {K3}) :
        \E map \in [S -> {V1, <<>>}] :
            /\ mems = <<MemOf(map)>>
            /\ inner = LsmStorageInner_create
            /\ fs = [p \in {} |-> <<>>]
            /\ chan = <<>>
            /\ worker = "recv"
            /\ iter = None
            /\ threads = NoThreads
            /\ ret = Result("open", <<>>, "ok", None)
            /\ hist = [k \in AllKeys |-> IF k \in S THEN Some(map[k]) ELSE None]
            /\ builder = None /\ table = None /\ cursor = None

ScanSpec == ScanInit /\ [][ScanNext]_vars

(***************************************************************************)
(* Engine states with immutable memtables, L0 SSTs and a level, as         *)
(* LsmStorageInner declares them (lsm_storage.rs 36-59) and as get, scan   *)
(* and compact read them.                                                  *)
(***************************************************************************)
Ma == (K1 :> V1)
Mb == (K1 :> V2) @@ (K2 :> V1)
Mc == (K1 :> <<>>)
LayerMaps == {Ma, Mb, Mc}

\* The sequences over S of a length up to n.
SeqsUpTo(S, n) == UNION {[1..m -> S] : m \in 0..n}

\* The SST a flush builds of the entries of `map` under the id `id`.
SstOf(map, id) == SsTableBuilder_build(MemTable_to_sst(MemOf(map), BLOCK_SIZE).sb, id)

\* The value of the newest of the layers `maps` (newest first) that has key.
RECURSIVE Newest(_, _)
Newest(maps, key) ==
    IF maps = <<>> THEN None
    ELSE IF key \in DOMAIN Head(maps) THEN Some(Head(maps)[key])
    ELSE Newest(Tail(maps), key)

InnerInit ==
    \E active \in {EmptyMap, Ma, Mc},
       imms \in SeqsUpTo(LayerMaps, MIN_NUM_SST_FILES_TO_COMPACT),
       l0 \in SeqsUpTo(LayerMaps, MIN_NUM_SST_FILES_TO_COMPACT),
       nlevels \in 0..1,
       l1 \in SeqsUpTo(LayerMaps, 1) :
        /\ nlevels = 0 => l1 = <<>>
        /\ mems = <<MemOf(active)>> \o [i \in 1..Len(imms) |-> MemOf(imms[i])]
        /\ inner = [memtable |-> 1,
                    imm_memtables |-> [i \in 1..Len(imms) |-> i + 1],
                    l0_sstables |-> [i \in 1..Len(l0) |-> SstOf(l0[i], i - 1).sst],
                    levels |-> [n \in 1..nlevels |->
                                   [i \in 1..Len(l1) |-> SstOf(l1[i], Len(l0)).sst]],
                    next_sst_id |-> Len(l0) + Len(l1)]
        /\ fs = [id \in 0..(Len(l0) + Len(l1) - 1) |->
                    IF id < Len(l0) THEN SstOf(l0[id + 1], id).data
                    ELSE SstOf(l1[1], id).data]
        /\ chan = <<>>
        /\ worker = "recv"
        /\ iter = None
        /\ threads = NoThreads
        /\ ret = Result("open", <<>>, "ok", None)
        /\ hist = [k \in AllKeys |->
                      Newest(<<active>> \o Reverse(imms) \o Reverse(l0) \o l1, k)]
        /\ builder = None /\ table = None /\ cursor = None

\* The reads and the compaction of such a state.
InnerNext ==
    \/ \E key \in Keys : Get(key)
    \/ \E level \in 0..1, io_ok \in BOOLEAN : Compact(level, io_ok)

InnerSpec == InnerInit /\ [][InnerNext]_vars

(***************************************************************************)
(* A BlockBuilder and a BlockIterator driven on their own, as the tests of *)
(* block/tests.rs drive them: entries are added to a builder of some       *)
(* capacity, the block is built, encoded and decoded, and iterated.        *)
(***************************************************************************)
\* The largest capacity a builder is created with.
MaxCap == 24
\* The calls of next made on one iterator at most.
MaxNexts == 4

\* The engine's variables, which the components on their own leave alone.
enginevars == <<mems, inner, fs, chan, worker, iter, ret, hist, threads>>

BlockCaps == (COUNT_SIZE + CHECKSUM_SIZE)..MaxCap

\* No iterator is held.
NoCursor == [kind |-> "none"]

\* BlockBuilder::new(cap) for some capacity.
BlockInit ==
    /\ EngineOpen
    /\ \E cap \in BlockCaps : builder = BlockBuilder_new(cap)
    /\ table = None
    /\ cursor = NoCursor

\* BlockBuilder::add(key, value): a refused entry leaves the builder as it is.
BlockAdd(key, value) ==
    /\ builder' = BlockBuilder_add(builder, key, value).builder
    /\ builder' # builder
    /\ UNCHANGED <<table, cursor>>
    /\ UNCHANGED enginevars

\* BlockBuilder::add(key, value) with its return value kept: the cursor holds
\* the builder the call was made on, the entry, the bool returned and the
\* builder afterwards.
BlockAddRet(key, value) ==
    /\ cursor.kind \in {"none", "add"}
    /\ LET r == BlockBuilder_add(builder, key, value)
       IN  /\ builder' = r.builder
           /\ cursor' = [kind |-> "add", before |-> builder, key |-> key,
                         value |-> value, ok |-> r.ok, after |-> r.builder]
    /\ UNCHANGED table
    /\ UNCHANGED enginevars

\* Block::decode(&builder.build().encode()) of a batch that fits the
\* capacity, offsets and count included; the cursor keeps the block that was
\* encoded and the block that was decoded.
BlockDecode ==
    /\ BlockBuilder_remaining(builder) >= 0
    /\ cursor' = [kind |-> "decoded", of |-> BlockBuilder_build(builder),
                  block |-> Block_decode(Block_encode(BlockBuilder_build(builder)))]
    /\ UNCHANGED <<builder, table>>
    /\ UNCHANGED enginevars

\* BlockIterator::create_and_seek_to_first(builder.build()); seek_to(0)
\* indexes the offsets, of which the block has to have one.
BlockScan ==
    /\ ~BlockBuilder_is_empty(builder)
    /\ cursor' = [kind |-> "block", nexts |-> 0,
                  it |-> BlockIterator_create_and_seek_to_first(
                             BlockBuilder_build(builder))]
    /\ UNCHANGED <<builder, table>>
    /\ UNCHANGED enginevars

\* BlockIterator::next
BlockNext ==
    /\ cursor.kind = "block"
    /\ cursor.nexts < MaxNexts
    /\ cursor' = [cursor EXCEPT !.it = BlockIterator_next(@), !.nexts = @ + 1]
    /\ UNCHANGED <<builder, table>>
    /\ UNCHANGED enginevars

\* BlockIterator::seek_to_first on an iterator in use.
BlockSeekToFirst ==
    /\ cursor.kind = "block"
    /\ cursor.nexts > 0
    /\ cursor' = [cursor EXCEPT !.it = BlockIterator_seek_to_first(@), !.nexts = 0]
    /\ UNCHANGED <<builder, table>>
    /\ UNCHANGED enginevars

\* BlockIterator::create_and_seek_to_key(builder.build(), key); the search
\* indexes the offsets, of which the block has to have one.
BlockSeek(key) ==
    /\ ~BlockBuilder_is_empty(builder)
    /\ cursor' = [kind |-> "sought", key |-> key,
                  it |-> BlockIterator_create_and_seek_to_key(
                             BlockBuilder_build(builder), key)]
    /\ UNCHANGED <<builder, table>>
    /\ UNCHANGED enginevars

\* BlockIterator::seek_to_key(key) on an iterator in use.
BlockSeekToKey(key) ==
    /\ cursor.kind \in {"block", "sought"}
    /\ cursor' = [kind |-> "sought", key |-> key,
                  it |-> BlockIterator_seek_to_key(cursor.it, key)]
    /\ UNCHANGED <<builder, table>>
    /\ UNCHANGED enginevars

BlockStep ==
    \/ \E key \in Keys \cup {K3}, value \in {V1, <<>>} : BlockAdd(key, value)
    \/ \E key \in Keys \cup {K3}, value \in {V1, <<>>} : BlockAddRet(key, value)
    \/ BlockDecode
    \/ BlockScan
    \/ BlockNext
    \/ BlockSeekToFirst
    \/ \E key \in AllKeys : BlockSeek(key)
    \/ \E key \in AllKeys : BlockSeekToKey(key)

BlockSpec == BlockInit /\ [][BlockStep]_vars

(***************************************************************************)
(* A MemTable scanned on its own, as test_memtable_iter does.              *)
(***************************************************************************)
\* MemTable::create and puts: any entries of the model's keys, the empty
\* key among them.
MemInit ==
    /\ \E S \in SUBSET AllKeys : \E map \in [S -> {V1, <<>>}] : mems = <<MemOf(map)>>
    /\ inner = LsmStorageInner_create
    /\ fs = [p \in {} |-> <<>>]
    /\ chan = <<>> /\ worker = "recv" /\ iter = None /\ threads = NoThreads
    /\ ret = Result("open", <<>>, "ok", None)
    /\ hist = [k \in AllKeys |-> None]
    /\ builder = None /\ table = None
    /\ cursor = NoCursor

\* MemTable::scan(lower, upper)
MemScan(lower, upper) ==
    /\ cursor' = [kind |-> "mem", nexts |-> 0, lower |-> lower, upper |-> upper,
                  it |-> MemTable_scan(1, mems, lower, upper)]
    /\ UNCHANGED <<builder, table>>
    /\ UNCHANGED enginevars

\* MemTableIterator::next
MemNext ==
    /\ cursor.kind = "mem"
    /\ cursor.nexts < MaxNexts
    /\ cursor' = [cursor EXCEPT !.it = MemTableIterator_next(@, mems), !.nexts = @ + 1]
    /\ UNCHANGED <<builder, table>>
    /\ UNCHANGED enginevars

MemStep ==
    \/ \E lower \in Bounds, upper \in Bounds : MemScan(lower, upper)
    \/ MemNext

MemSpec == MemInit /\ [][MemStep]_vars

(***************************************************************************)
(* A MemTable flushed to an SsTable on its own, as test_memtable_to_sst    *)
(* does: to_sst(block_size), build, and an SsTableIterator over the table. *)
(***************************************************************************)
\* The block sizes of to_sst: too small for any entry, one entry a block,
\* two or three entries a block, and the engine's.
BlockSizes == {6, 10, 18, BLOCK_SIZE}

\* MemTable::create and puts of entries with a non-empty key, and the block
\* size the memtable will be flushed with.
TableInit ==
    /\ \E S \in SUBSET (Keys \cup {K3}) :
           \E map \in [S -> {V1, <<>>}] : mems = <<MemOf(map)>>
    /\ inner = LsmStorageInner_create
    /\ fs = [p \in {} |-> <<>>]
    /\ chan = <<>> /\ worker = "recv" /\ iter = None /\ threads = NoThreads
    /\ ret = Result("open", <<>>, "ok", None)
    /\ hist = [k \in AllKeys |-> None]
    /\ builder = None
    /\ \E block_size \in BlockSizes : table = [state |-> "new", block_size |-> block_size]
    /\ cursor = NoCursor

\* The table and the file of memtable.to_sst(block_size).build(0, None, path).
TableBuilt(sb, block_size) ==
    [state |-> "built", block_size |-> block_size, sst |-> SsTableBuilder_build(sb, 0).sst]

\* memtable.to_sst(block_size).build(0, None, path): to_sst panics on an
\* entry that no block holds.
TableBuild ==
    /\ table.state = "new"
    /\ LET r == MemTable_to_sst(mems[1], table.block_size)
       IN  IF r.panic
           THEN /\ table' = [table EXCEPT !.state = "panic"]
                /\ fs' = fs
           ELSE /\ table' = TableBuilt(r.sb, table.block_size)
                /\ fs' = FileObject_create(fs, 0, SsTableBuilder_build(r.sb, 0).data)
    /\ UNCHANGED <<mems, inner, chan, worker, iter, ret, hist, builder, cursor, threads>>

\* SsTableIterator::create_and_seek_to_first(table): read_block(0) indexes
\* block_metas, which panics for a table without blocks.
TableScan ==
    /\ table.state = "built"
    /\ cursor' = IF SsTable_num_of_blocks(table.sst) = 0 THEN [kind |-> "panic"]
                  ELSE [kind |-> "sst", nexts |-> 0,
                        it |-> SsTableIterator_create_and_seek_to_first(table.sst, fs)]
    /\ UNCHANGED <<builder, table>>
    /\ UNCHANGED enginevars

\* The bounds of a range over the keys a table may hold.
RangeBounds ==
    {Unbounded} \cup {Included(k) : k \in Keys \cup {K3}}
                \cup {Excluded(k) : k \in Keys \cup {K3}}

\* SsTableIterator::by_range(table, lower, upper) on a table that has blocks,
\* as the first iterator over the table.
TableRange(lower, upper) ==
    /\ table.state = "built"
    /\ cursor = NoCursor
    /\ SsTable_num_of_blocks(table.sst) > 0
    /\ cursor' = [kind |-> "range", nexts |-> 0, lower |-> lower, upper |-> upper,
                  it |-> SsTableIterator_by_range(table.sst, fs, lower, upper)]
    /\ UNCHANGED <<builder, table>>
    /\ UNCHANGED enginevars

\* SsTableIterator::create_and_seek_to_key(table, key) on a table that has
\* blocks, as the first iterator over the table.
TableSeek(key) ==
    /\ table.state = "built"
    /\ cursor = NoCursor
    /\ SsTable_num_of_blocks(table.sst) > 0
    /\ cursor' = [kind |-> "seek", via |-> "create", nexts |-> 0, key |-> key,
                  it |-> SsTableIterator_create_and_seek_to_key(table.sst, fs, key)]
    /\ UNCHANGED <<builder, table>>
    /\ UNCHANGED enginevars

\* SsTableIterator::seek_to_key(key) on an iterator without bounds, wherever
\* it stands: only the field `iter` is assigned.
TableSeekToKey(key) ==
    /\ cursor.kind \in {"sst", "seek"}
    /\ cursor' = [kind |-> "seek", via |-> "seek_to_key", nexts |-> 0, key |-> key,
                  it |-> [cursor.it EXCEPT !.iter =
                             SsTableIterator_create_and_seek_to_key(
                                 cursor.it.table, fs, key).iter]]
    /\ UNCHANGED <<builder, table>>
    /\ UNCHANGED enginevars

\* SsTableIterator::next on an iterator that is not valid.  read_block
\* indexes block_metas, which panics past the last block.
TableOverstep ==
    /\ cursor.kind \in {"sst", "range", "seek", "over"}
    /\ cursor.kind = "over" => ~cursor.panic /\ cursor.over < MaxNexts
    /\ ~SsTableIterator_is_valid(cursor.it)
    /\ LET stepped == BlockIterator_next(cursor.it.iter)
           panics == /\ ~BlockIterator_is_valid(stepped)
                     /\ cursor.it.blk_idx + 1 > SsTable_num_of_blocks(cursor.it.table)
       IN  cursor' = [kind |-> "over",
                      over |-> IF cursor.kind = "over" THEN cursor.over + 1 ELSE 1,
                      panic |-> panics,
                      it |-> IF panics THEN cursor.it
                             ELSE SsTableIterator_next(cursor.it, fs)]
    /\ UNCHANGED <<builder, table>>
    /\ UNCHANGED enginevars

\* SsTableIterator::next, called on a valid iterator.
TableNext ==
    /\ cursor.kind \in {"sst", "range", "seek"}
    /\ SsTableIterator_is_valid(cursor.it)
    /\ cursor' = [cursor EXCEPT !.it = SsTableIterator_next(@, fs), !.nexts = @ + 1]
    /\ UNCHANGED <<builder, table>>
    /\ UNCHANGED enginevars

\* SsTable::find_block_idx(key) on a table that has blocks.
TableFind(key) ==
    /\ table.state = "built"
    /\ SsTable_num_of_blocks(table.sst) > 0
    /\ cursor' = [kind |-> "find", key |-> key,
                  idx |-> SsTable_find_block_idx(table.sst, fs, key)]
    /\ UNCHANGED <<builder, table>>
    /\ UNCHANGED enginevars

TableStep ==
    \/ TableBuild
    \/ TableScan
    \/ TableNext
    \/ \E key \in AllKeys : TableFind(key)
    \/ \E lower \in RangeBounds, upper \in RangeBounds : TableRange(lower, upper)
    \/ \E key \in AllKeys : TableSeek(key)
    \/ \E key \in AllKeys : TableSeekToKey(key)
    \/ TableOverstep

TableSpec == TableInit /\ [][TableStep]_vars

(***************************************************************************)
(* Two user threads and a flush, at the grain of the RwLock: put takes    *)
(* the write lock for its first statement only and inserts without it,    *)
(* sync holds its write guard from its first statement to its return.     *)
(***************************************************************************)
\* put, its asserts and `let inner = self.inner.write().as_ref().clone()`:
\* the guard is a temporary of the statement, the clone keeps the Arc of the
\* active memtable.
PutCapture(key, value) ==
    /\ threads.lock = "free"
    /\ ~threads.put.some
    /\ key # <<>> /\ value # <<>>
    /\ threads' = [threads EXCEPT !.put = Some([key |-> key, value |-> value,
                                                mem |-> inner.memtable,
                                                flushed |-> FALSE])]
    /\ UNCHANGED <<mems, inner, fs, chan, worker, iter, ret, hist, builder, table, cursor>>

\* put, from `mem.put(key, value)` to its return.
PutInsert ==
    /\ threads.put.some
    /\ LET p == threads.put.v
           mem == MemTable_put(mems[p.mem], p.key, p.value)
           signal == mem.size > FlushThreshold
       IN  /\ mem.size <= MaxSize
           /\ signal => Len(chan) < MaxQueue
           /\ mems' = [mems EXCEPT ![p.mem] = mem]
           /\ chan' = IF signal THEN Append(chan, "flush") ELSE chan
           /\ hist' = [hist EXCEPT ![p.key] = Some(p.value)]
           /\ threads' = [threads EXCEPT !.put = None, !.raced = p.flushed]
    /\ ret' = Result("put", <<>>, "ok", None)
    /\ UNCHANGED <<inner, fs, worker, iter, builder, table, cursor>>

\* sync: `let guard = self.inner.write()`.
SyncBegin ==
    /\ threads.lock = "free"
    /\ threads.sync = "idle"
    /\ threads' = [threads EXCEPT !.lock = "sync", !.sync = "locked"]
    /\ UNCHANGED <<mems, inner, fs, chan, worker, iter, ret, hist, builder, table, cursor>>

\* sync, from the clone of the state to the `?` of export: the memtable is
\* archived in the clone, read into an SsTableBuilder and written to a file.
SyncWrite(io_ok) ==
    /\ threads.sync = "locked"
    /\ LET r == LsmStorage_sync(inner, mems, fs, io_ok)
       IN  /\ Install(r)
           /\ threads' = [threads EXCEPT
                  !.sync = r.res,
                  !.put = IF threads.put.some /\ r.res = "ok"
                          THEN Some([threads.put.v EXCEPT !.flushed = TRUE])
                          ELSE @]
    /\ UNCHANGED <<chan, worker, iter, ret, hist, builder, table, cursor>>

\* sync returns (or unwinds), which drops the clone and the guard.
SyncEnd ==
    /\ threads.sync \in {"ok", "err", "panic"}
    /\ ret' = Result("sync", <<>>, threads.sync, None)
    /\ threads' = [threads EXCEPT !.lock = "free", !.sync = "idle"]
    /\ UNCHANGED <<mems, inner, fs, chan, worker, iter, hist, builder, table, cursor>>

RaceNext ==
    \/ \E key \in Keys, value \in Values : PutCapture(key, value)
    \/ PutInsert
    \/ \E key \in Keys : threads.lock = "free" /\ Delete(key)
    \/ \E key \in Keys : threads.lock = "free" /\ Get(key)
    \/ SyncBegin
    \/ \E io_ok \in BOOLEAN : SyncWrite(io_ok)
    \/ SyncEnd

RaceSpec == Init /\ [][RaceNext]_vars

(***************************************************************************)
(* The worker of an engine that holds L0 SSTs, with the flush signals of   *)
(* the puts that filled its active memtable still in the channel.          *)
(***************************************************************************)
\* The puts that have filled the active memtable, in their order.
WorkerPuts == <<<<K1, V1>>, <<K2, V1>>, <<K3, V1>>>>

\* The memtable after the first n of them.
MemAfter(n) == PutAll(MemTable_create, SubSeq(WorkerPuts, 1, n))

\* The messages these n puts have sent: put sends one each time it leaves the
\* byte counter above the threshold.
RECURSIVE SignalsOf(_)
SignalsOf(n) ==
    IF n = 0 THEN <<>>
    ELSE IF MemAfter(n).size > FlushThreshold THEN Append(SignalsOf(n - 1), "flush")
    ELSE SignalsOf(n - 1)

WorkerInit ==
    \E l0 \in SeqsUpTo(LayerMaps, MIN_NUM_SST_FILES_TO_COMPACT),
       n \in 0..Len(WorkerPuts) :
        /\ mems = <<MemAfter(n)>>
        /\ inner = [LsmStorageInner_create EXCEPT
                       !.l0_sstables = [i \in 1..Len(l0) |-> SstOf(l0[i], i - 1).sst],
                       !.next_sst_id = Len(l0)]
        /\ fs = [id \in 0..(Len(l0) - 1) |-> SstOf(l0[id + 1], id).data]
        /\ chan = SignalsOf(n)
        /\ worker = "recv"
        /\ iter = None
        /\ threads = NoThreads
        /\ ret = Result("open", <<>>, "ok", None)
        /\ hist = [k \in AllKeys |->
                      Newest(<<MemAfter(n).map>> \o Reverse(l0), k)]
        /\ builder = None /\ table = None /\ cursor = None

\* The worker at work while the user reads, stops or drops a handle.
WorkerNext ==
    \/ \E key \in Keys : Get(key)
    \/ Stop
    \/ Drop
    \/ WorkerRecv
    \/ \E io_ok \in BOOLEAN : WorkerSync(io_ok)
    \/ WorkerCheck

WorkerSpec == WorkerInit /\ [][WorkerNext]_vars

(***************************************************************************)
(* MergeIterator and TwoMergeIterator used on their own, over iterators of *)
(* memtables: `mems` holds the inputs, in the order they are handed over.  *)
(***************************************************************************)
\* The value input i holds for each of its keys; it tells the inputs apart.
InputValues == <<V1, V2, <<>>>>

\* Up to three inputs, each with any of the keys K1, K2 and K3, or none.
MergeInit ==
    /\ \E n \in 0..Len(InputValues) :
          \E doms \in [1..n -> SUBSET (Keys \cup {K3})] :
              mems = [i \in 1..n |-> MemOf([k \in doms[i] |-> InputValues[i]])]
    /\ inner = LsmStorageInner_create
    /\ fs = [p \in {} |-> <<>>]
    /\ chan = <<>> /\ worker = "recv" /\ iter = None /\ threads = NoThreads
    /\ ret = Result("open", <<>>, "ok", None)
    /\ hist = [k \in AllKeys |-> None]
    /\ builder = None /\ table = None
    /\ cursor = NoCursor

\* The iterator of all of input i.
InputIter(i) == MemTable_scan(i, mems, Unbounded, Unbounded)

\* MergeIterator::create over all the inputs.
MergeCreate ==
    /\ cursor' = [kind |-> "merge", nexts |-> 0,
                  it |-> MergeIterator_create([i \in 1..Len(mems) |-> InputIter(i)])]
    /\ UNCHANGED <<builder, table>>
    /\ UNCHANGED enginevars

\* MergeIterator::next, called as its users call it: while it is valid.
MergeNext ==
    /\ cursor.kind = "merge"
    /\ MergeIterator_is_valid(cursor.it)
    /\ cursor' = [cursor EXCEPT !.it = MergeIterator_next(@, mems, fs), !.nexts = @ + 1]
    /\ UNCHANGED <<builder, table>>
    /\ UNCHANGED enginevars

\* TwoMergeIterator::create(A, B) with the first input as A and the second
\* as B, each behind a MergeIterator as in LsmStorageInner::scan.
TwoCreate ==
    /\ Len(mems) = 2
    /\ cursor' = [kind |-> "two", nexts |-> 0,
                  it |-> TwoMergeIterator_create(MergeIterator_create(<<InputIter(1)>>),
                                                 MergeIterator_create(<<InputIter(2)>>),
                                                 mems, fs)]
    /\ UNCHANGED <<builder, table>>
    /\ UNCHANGED enginevars

\* TwoMergeIterator::next, while it is valid.
TwoNext ==
    /\ cursor.kind = "two"
    /\ TwoMergeIterator_is_valid(cursor.it)
    /\ cursor' = [cursor EXCEPT !.it = TwoMergeIterator_next(@, mems, fs), !.nexts = @ + 1]
    /\ UNCHANGED <<builder, table>>
    /\ UNCHANGED enginevars

\* FusedIterator::next on a FusedIterator that wraps the iterator of the
\* cursor: `self.iter.next()`, whatever is_valid() says.  MergeIterator::next
\* unwraps `self.current`, which is None once the merge is exhausted.
FusedNext ==
    /\ cursor.kind \in {"merge", "two"}
    /\ cursor' =
          IF cursor.kind = "merge"
          THEN IF cursor.it.current.some
               THEN [cursor EXCEPT !.it = MergeIterator_next(@, mems, fs), !.nexts = @ + 1]
               ELSE [kind |-> "panic"]
          ELSE IF TwoMergeIterator_is_valid(cursor.it)
               THEN [cursor EXCEPT !.it = TwoMergeIterator_next(@, mems, fs),
                                   !.nexts = @ + 1]
               ELSE [cursor EXCEPT !.it = TwoMergeIterator_next(@, mems, fs)]
    /\ UNCHANGED <<builder, table>>
    /\ UNCHANGED enginevars

MergeStep ==
    \/ MergeCreate
    \/ MergeNext
    \/ TwoCreate
    \/ TwoNext
    \/ FusedNext

MergeSpec == MergeInit /\ [][MergeStep]_vars

(***************************************************************************)
(* The block cache of the engine (lsm_storage.rs 141, 158): every SsTable  *)
(* that sync exports is given the one cache of the engine and its id.      *)
(* `table` holds the cache, the SsTable of the last successful sync and    *)
(* the number of syncs; `cursor` the last block read through the cache     *)
(* next to the block read from the file.                                   *)
(***************************************************************************)
\* The calls of sync in one run at most.
MaxSyncs == 2

CacheInit ==
    /\ EngineOpen
    /\ builder = None
    /\ table = [cache |-> <<>>, sst |-> None, syncs |-> 0]
    /\ cursor = NoCursor

\* LsmStorage::sync(), keeping the SsTable that export returned.
CacheSync ==
    /\ table.syncs < MaxSyncs
    /\ LET r == LsmStorage_sync(inner, mems, fs, TRUE)
           sb == MemTable_to_sst(mems[inner.memtable], BLOCK_SIZE)
       IN  /\ r.res = "ok"
           /\ Install(r)
           /\ ret' = Result("sync", <<>>, r.res, None)
           /\ table' = [table EXCEPT
                  !.sst = Some(SsTableBuilder_build(sb.sb, r.sst_id).sst),
                  !.syncs = @ + 1]
    /\ UNCHANGED <<chan, worker, iter, hist, builder, cursor, threads>>

\* read_block_cached(block_idx) on the SsTable of the last sync, whose bytes
\* the file holds, and read_block(block_idx) next to it.
CacheRead(block_idx) ==
    /\ table.sst.some
    /\ block_idx < SsTable_num_of_blocks(table.sst.v)
    /\ LET r == SsTable_read_block_cached(table.sst.v, table.cache, fs, block_idx)
       IN  /\ table' = [table EXCEPT !.cache = r.cache]
           /\ cursor' = [kind |-> "read", sst |-> table.sst.v, idx |-> block_idx,
                         block |-> r.block,
                         direct |-> SsTable_read_block(table.sst.v, fs, block_idx)]
    /\ UNCHANGED builder
    /\ UNCHANGED enginevars

CacheNext ==
    \/ \E key \in Keys, value \in Values : Put(key, value)
    \/ \E key \in Keys : Delete(key)
    \/ CacheSync
    \/ \E block_idx \in {0} : CacheRead(block_idx)

CacheSpec == CacheInit /\ [][CacheNext]_vars

(***************************************************************************)
(* The write-ahead log (wal.rs, struct Wal): append writes one record,     *)
(* padded with zeros to the alignment unit, and to_memtable replays the    *)
(* file unit by unit.  The file is fs["wal"], a sequence of bytes; `hist`  *)
(* keeps the last value appended for each key and `cursor` the memtable    *)
(* that to_memtable returned.                                              *)
(***************************************************************************)
ALIGNMENT_SIZE == 4096
U16SZ == 2

\* Wal::append: the bytes of the file after the record is written.
Wal_append(file, key, value) ==
    LET complement == ALIGNMENT_SIZE
                          - ((U16SZ * 2 + Len(key) + Len(value)) % ALIGNMENT_SIZE)
        total == 4 + Len(key) + Len(value) + complement
        buf == U16LE(Len(key)) \o U16LE(Len(value)) \o key \o value
    IN  file \o buf \o Zeros(total - Len(buf))

\* Wal::header_of
Wal_header_of(buf) ==
    [key_len |-> FromU16LE(buf[1], buf[2]), val_len |-> FromU16LE(buf[3], buf[4])]

\* Wal::consume_buffer: the key and the value of the record in `buffer`.
Wal_consume_buffer(buffer) ==
    LET key_len == Wal_header_of(buffer).key_len
    IN  [key |-> SubSeq(buffer, 5, 4 + key_len),
         value |-> SubSeq(buffer, 5 + key_len, Len(buffer))]

\* The `while read < file_len` of Wal::to_memtable.  `state` is the Reading
\* of the code; `remaining` is usize::MAX in the code while state is Start,
\* where it is not read, and 0 here.
RECURSIVE Wal_replay(_, _, _, _, _, _)
Wal_replay(file, read, state, remaining, buffer, tbl) ==
    IF read >= Len(file) THEN tbl
    ELSE LET buf == SubSeq(file, read + 1, read + ALIGNMENT_SIZE)
         IN  IF state = "Start"
             THEN LET h == Wal_header_of(buf)
                      total == 4 + h.key_len + h.val_len
                  IN  IF total <= ALIGNMENT_SIZE
                      THEN LET kv == Wal_consume_buffer(buffer \o SubSeq(buf, 1, total))
                           IN  Wal_replay(file, read + ALIGNMENT_SIZE, "Start", 0, <<>>,
                                          MemTable_put(tbl, kv.key, kv.value))
                      ELSE Wal_replay(file, read + ALIGNMENT_SIZE, "Cont",
                                      total - ALIGNMENT_SIZE, buffer \o buf, tbl)
             ELSE LET off == Min(remaining, ALIGNMENT_SIZE)
                      filled == buffer \o SubSeq(buf, 1, off)
                  IN  IF remaining - off = 0
                      THEN LET kv == Wal_consume_buffer(filled)
                           IN  Wal_replay(file, read + ALIGNMENT_SIZE, "Start", 0, <<>>,
                                          MemTable_put(tbl, kv.key, kv.value))
                      ELSE Wal_replay(file, read + ALIGNMENT_SIZE, "Cont",
                                      remaining - off, filled, tbl)

\* Wal::to_memtable: [panic, tbl]; the assert_eq on the length of the file
\* panics.
Wal_to_memtable(file) ==
    IF Len(file) % ALIGNMENT_SIZE # 0 THEN [panic |-> TRUE, tbl |-> MemTable_create]
    ELSE [panic |-> FALSE,
          tbl |-> Wal_replay(file, 0, "Start", 0, <<>>, MemTable_create)]

\* The units a log file holds at most.
MaxWalUnits == 4

\* A value of n bytes, no two neighbours alike.
WalFill(n) == [i \in 1..n |-> 1 + (i % 251)]

\* Values that make a record, with a key of one byte, shorter than a unit, a
\* unit exactly, a byte more than a unit as test_exceed_alignment does,
\* and two units exactly.
WalValues ==
    {V1, WalFill(ALIGNMENT_SIZE - 5), WalFill(ALIGNMENT_SIZE - 4),
     WalFill(2 * ALIGNMENT_SIZE - 5)}

\* Wal::create(path)
WalInit ==
    /\ mems = <<MemTable_create>>
    /\ inner = LsmStorageInner_create
    /\ fs = [p \in {"wal"} |-> <<>>]
    /\ chan = <<>> /\ worker = "recv" /\ iter = None /\ threads = NoThreads
    /\ ret = Result("open", <<>>, "ok", None)
    /\ hist = [k \in AllKeys |-> None]
    /\ builder = None /\ table = None
    /\ cursor = NoCursor

\* wal.append(key, value) on the log that was created.
WalAppend(key, value) ==
    /\ cursor = NoCursor
    /\ LET file == Wal_append(fs["wal"], key, value)
       IN  /\ Len(file) <= MaxWalUnits * ALIGNMENT_SIZE
           /\ fs' = [fs EXCEPT !["wal"] = file]
    /\ hist' = [hist EXCEPT ![key] = Some(value)]
    /\ UNCHANGED <<mems, inner, chan, worker, iter, ret, threads, builder, table, cursor>>

\* drop(wal); Wal::from(path).to_memtable()
WalToMemtable ==
    /\ cursor = NoCursor
    /\ LET r == Wal_to_memtable(fs["wal"])
       IN  cursor' = [kind |-> "wal", panic |-> r.panic, mem |-> r.tbl]
    /\ UNCHANGED <<builder, table>>
    /\ UNCHANGED enginevars

WalNext ==
    \/ \E key \in Keys, value \in WalValues : WalAppend(key, value)
    \/ WalToMemtable

WalSpec == WalInit /\ [][WalNext]_vars

(***************************************************************************)
(* What the layers of a state hold, and what a reader is to see of them.   *)
(***************************************************************************)
\* The (key, value) pairs of a block, read as BlockIterator reads them.
BlockEntries(block) ==
    {<<Block_key_at(block, i),
       Block_slice_at(block, block.offsets[i + 1] + 2 + Len(Block_key_at(block, i)))>> :
        i \in 0..(Len(block.offsets) - 1)}

\* The (key, value) pairs of a block in the order of its offsets.
BlockSeq(block) ==
    [i \in 1..Len(block.offsets) |->
        <<Block_key_at(block, i - 1),
          Block_slice_at(block, block.offsets[i] + 2 + Len(Block_key_at(block, i - 1)))>>]

\* The keys of a sequence of entries ascend strictly.
SortedEntries(es) == \A i \in 1..(Len(es) - 1) : BytesLess(es[i][1], es[i + 1][1])

\* The entries of an SST whose file is in f, as a map.
SstEntries(sst, f) ==
    UNION {BlockEntries(SsTable_read_block(sst, f, b)) :
              b \in 0..(SsTable_num_of_blocks(sst) - 1)}

SstMap(sst, f) ==
    [k \in {e[1] : e \in SstEntries(sst, f)} |->
        (CHOOSE e \in SstEntries(sst, f) : e[1] = k)[2]]

\* The maps of the memtables and L0 SSTs of the state, the newest layer first.
UpperLayers ==
    <<mems[inner.memtable].map>>
        \o Reverse([i \in 1..Len(inner.imm_memtables) |-> mems[inner.imm_memtables[i]].map])
        \o Reverse([i \in 1..Len(inner.l0_sstables) |-> SstMap(inner.l0_sstables[i], fs)])

\* The maps of the SSTs of the levels, level 1 first.
RECURSIVE Flatten(_)
Flatten(seqs) == IF seqs = <<>> THEN <<>> ELSE Head(seqs) \o Flatten(Tail(seqs))

LevelLayers ==
    Flatten([n \in 1..Len(inner.levels) |->
                [i \in 1..Len(inner.levels[n]) |-> SstMap(inner.levels[n][i], fs)]])

\* The pairs an iterator yields from where it stands until it is invalid.
RECURSIVE Drain(_, _, _)
Drain(t, m, f) ==
    IF FusedIterator_is_valid(t)
    THEN <<<<t.key, t.value>>>> \o Drain(FusedIterator_next(t, m, f), m, f)
    ELSE <<>>

\* The keys in the bounds whose last write, by the history h, is a put.
LiveKeys(h, lower, upper) ==
    {k \in AllKeys : /\ h[k].some /\ h[k].v # <<>>
                     /\ AboveLower(lower, k) /\ BelowUpper(upper, k)}

\* Those keys in ascending order, each with the value last put.
LiveEntries(h, lower, upper) ==
    [i \in 1..Cardinality(LiveKeys(h, lower, upper)) |->
        <<SortedKeys(LiveKeys(h, lower, upper))[i],
          h[SortedKeys(LiveKeys(h, lower, upper))[i]].v>>]

\* Some file of the directory holds an entry for key.
Flushed(key) ==
    \E id \in DOMAIN fs : \E b \in 1..Len(fs[id].blocks) :
        \E e \in BlockEntries(fs[id].blocks[b]) : e[1] = key

\* The steps that are a sync of the user, a sync of the worker and a
\* compaction, told first by what such a step leaves alone.
SyncStep(io_ok) ==
    /\ ret'.op = "sync"
    /\ UNCHANGED <<chan, worker, iter, hist>>
    /\ Sync(io_ok)

WorkerSyncStep(io_ok) ==
    /\ worker = "sync"
    /\ UNCHANGED <<iter, ret, hist>>
    /\ WorkerSync(io_ok)

PutStep(key, value) ==
    /\ ret'.op = "put"
    /\ UNCHANGED <<inner, fs, worker, iter>>
    /\ Put(key, value)

DeleteStep(key) ==
    /\ ret'.op = "delete"
    /\ UNCHANGED <<inner, fs, chan, worker, iter>>
    /\ Delete(key)

CompactStep(level, io_ok) ==
    /\ ret'.op = "compact"
    /\ UNCHANGED <<chan, worker, iter, hist>>
    /\ Compact(level, io_ok)

(***************************************************************************)
(* C1.  Read-your-writes: in every state reached by puts, deletes, syncs   *)
(* and the steps of the worker, a key whose last write is put(k, v) reads  *)
(* as v.                                                                   *)
(***************************************************************************)
C1_ReadYourWrites ==
    \A k \in AllKeys :
        (hist[k].some /\ hist[k].v # <<>>) => LsmStorage_get(inner, mems, fs, k) = hist[k]

\* get(K1) has returned V2, the value last put, with an entry of K1 flushed.
C1_Witness ==
    /\ ret = Result("get", K1, "ok", Some(V2))
    /\ hist[K1] = Some(V2)
    /\ Flushed(K1)

(***************************************************************************)
(* C2.  In every state reached by puts, deletes, syncs and the steps of    *)
(* the worker, a key whose last write is a delete reads as nothing.        *)
(***************************************************************************)
C2_DeleteHides ==
    \A k \in AllKeys :
        (hist[k].some /\ hist[k].v = <<>>) => LsmStorage_get(inner, mems, fs, k) = None

\* get(K1) has returned nothing after delete(K1), with an entry of K1 flushed.
C2_Witness ==
    /\ ret = Result("get", K1, "ok", None)
    /\ hist[K1] = Some(<<>>)
    /\ Flushed(K1)

C4_ScanYieldsLiveEntries ==
    \A lower \in Bounds, upper \in Bounds :
        Drain(LsmStorageInner_scan(inner, mems, fs, lower, upper), mems, fs)
            = LiveEntries(hist, lower, upper)

C6_SyncInstallsFlush ==
    [][\A io_ok \in BOOLEAN :
          (ret'.res = "ok" /\ SyncStep(io_ok)) =>
             /\ inner'.imm_memtables = Append(inner.imm_memtables, inner.memtable)
             /\ inner'.memtable # inner.memtable
             /\ mems'[inner'.memtable] = MemTable_create
             /\ inner'.next_sst_id = inner.next_sst_id + 1
             /\ Len(inner'.l0_sstables) = Len(inner.l0_sstables) + 1
             /\ SstMap(inner'.l0_sstables[Len(inner'.l0_sstables)], fs')
                    = mems[inner.memtable].map]_vars

(***************************************************************************)
(* C7.  Every SST that is built gets an id above every id given before:    *)
(* the file {sst_id}.sst it is written to does not exist yet.              *)
(***************************************************************************)
C7_FreshSstId ==
    [][\A io_ok \in BOOLEAN :
          (\/ ret'.res = "ok" /\ SyncStep(io_ok)
           \/ worker' = "check" /\ WorkerSyncStep(io_ok)
           \/ ret'.res = "ok" /\ \E level \in 0..1 : CompactStep(level, io_ok))
          => \A id \in DOMAIN fs : inner.next_sst_id > id]_vars

(***************************************************************************)
(* C8.  A flush or a compaction leaves what the iterator of an earlier     *)
(* scan has yet to yield as it was.                                        *)
(***************************************************************************)
C8_ScanUnaffectedByFlush ==
    [][(/\ iter.some
        /\ \E io_ok \in BOOLEAN :
              \/ SyncStep(io_ok)
              \/ WorkerSyncStep(io_ok)
              \/ \E level \in 0..1 : CompactStep(level, io_ok))
       => Drain(iter.v, mems', fs') = Drain(iter.v, mems, fs)]_vars

\* A sync has returned Ok while the iterator of a scan has three entries to
\* yield, the last of them still to be read from the memtable.
C8_Witness ==
    /\ ret = Result("sync", <<>>, "ok", None)
    /\ iter.some
    /\ Len(Drain(iter.v, mems, fs)) = 3
    /\ Flushed(K3)

C10_SyncOfEmptyMemtable ==
    [][\A io_ok \in BOOLEAN :
          (/\ mems[inner.memtable].map = EmptyMap
           /\ SyncStep(io_ok) \/ WorkerSyncStep(io_ok))
          => (inner' = inner /\ mems' = mems)]_vars

\* A sync of an empty active memtable has returned Ok.
C10_Witness ==
    /\ ret = Result("sync", <<>>, "ok", None)
    /\ mems[inner.memtable].map = EmptyMap
    /\ 0 \in DOMAIN fs
    /\ fs[0].blocks = <<>>

(***************************************************************************)
(* C11.  Once stop() is called or the engine is dropped a stop marker is   *)
(* sent; the worker that receives the marker exits and, once it has        *)
(* exited, does nothing for the messages queued after the marker; and the  *)
(* drop of the engine does not complete before the worker has exited.      *)
(***************************************************************************)
C11_StopEndsWorker ==
    [][/\ (worker = "recv" /\ chan # <<>> /\ Head(chan) = "stop" /\ WorkerRecv)
            => worker' = "exited"
       /\ worker = "exited" => worker' = "exited"
       /\ (Stop \/ Drop) => chan'[Len(chan')] = "stop"
       /\ Drop => worker' = "exited"]_vars

(***************************************************************************)
(* C12.  put with an empty key or an empty value returns an error as its   *)
(* result, without a panic, and leaves the engine state unchanged.         *)
(***************************************************************************)
C12_PutRejectsWithError ==
    [][\A key \in CallKeys, value \in Values \cup {<<>>} :
           ((key = <<>> \/ value = <<>>) /\ PutStep(key, value))
               => ret'.res = "err" /\ UNCHANGED <<mems, inner, fs, chan>>]_vars

(***************************************************************************)
(* C13.  Every key stored in a memtable or in an SST is non-empty.         *)
(***************************************************************************)
C13_StoredKeysNonEmpty ==
    /\ \A i \in DOMAIN mems : <<>> \notin DOMAIN mems[i].map
    /\ \A p \in DOMAIN fs : \A b \in DOMAIN fs[p].blocks :
           \A e \in BlockEntries(fs[p].blocks[b]) : e[1] # <<>>

(***************************************************************************)
(* C14.  After stop() has been called, a put, delete or sync fails with an *)
(* error, modifies no engine state and queues nothing for the worker.      *)
(* Stated of the call that follows stop(), worker steps lying between.     *)
(***************************************************************************)
C14_CallsFailAfterStop ==
    [][(/\ ret.op = "stop"
        /\ \/ \E key \in CallKeys, value \in Values \cup {<<>>} : PutStep(key, value)
           \/ \E key \in CallKeys : DeleteStep(key)
           \/ \E io_ok \in BOOLEAN : SyncStep(io_ok))
           => ret'.res = "err" /\ UNCHANGED <<mems, inner, fs, chan>>]_vars

(***************************************************************************)
(* C15.  For any capacity and any sequence of add calls on a BlockBuilder  *)
(* the remaining space never is negative, the encoding of the built block  *)
(* is exactly as long as the capacity, and decode recovers every accepted  *)
(* entry.                                                                  *)
(***************************************************************************)
C15_BlockCapacity ==
    /\ BlockBuilder_remaining(builder) >= 0
    /\ Len(Block_encode(BlockBuilder_build(builder))) = builder.cap
    /\ BlockSeq(Block_decode(Block_encode(BlockBuilder_build(builder))))
           = BlockSeq(BlockBuilder_build(builder))

(***************************************************************************)
(* C16.  Block round-trip: for a batch of entries added in ascending key   *)
(* order to one block, decode(encode(block)) has the data section and the  *)
(* offset table of the block that build returned.                          *)
(***************************************************************************)
C16_BlockRoundTrip ==
    (cursor.kind = "decoded" /\ SortedEntries(BlockSeq(cursor.of)))
        => /\ cursor.block.data = cursor.of.data
           /\ cursor.block.offsets = cursor.of.offsets
           /\ BlockSeq(cursor.block) = BlockSeq(cursor.of)

\* A block of two entries with padding behind them has been round-tripped.
C16_Witness ==
    /\ cursor.kind = "decoded"
    /\ BlockSeq(cursor.of) = <<(<<K1, V1>>), (<<K2, <<>>>>)>>
    /\ cursor.of.padding = 3
    /\ cursor.block = cursor.of

(***************************************************************************)
(* C17.  A BlockIterator started with seek_to_first on a block of n >= 1   *)
(* entries stands on entry k + 1 after k < n calls of next, is invalid     *)
(* after the n-th next and stays invalid after any further next; a later   *)
(* seek_to_first restarts the sequence.                                    *)
(***************************************************************************)
C17_BlockIteratorTotality ==
    cursor.kind = "block" =>
        IF cursor.nexts < Len(cursor.it.block.offsets)
        THEN /\ BlockIterator_is_valid(cursor.it)
             /\ <<cursor.it.key, cursor.it.value>>
                    = BlockSeq(cursor.it.block)[cursor.nexts + 1]
        ELSE ~BlockIterator_is_valid(cursor.it)

\* The entries of memtable `mem` within the bounds, in ascending key order.
EntriesWithin(mem, lower, upper) ==
    LET ks == SortedKeys({k \in DOMAIN mem.map :
                             AboveLower(lower, k) /\ BelowUpper(upper, k)})
    IN  [i \in 1..Len(ks) |-> <<ks[i], mem.map[ks[i]]>>]

(***************************************************************************)
(* C19.  MemTable::scan(lower, upper) stands on the smallest key within    *)
(* both bounds, successive nexts expose exactly the entries within the     *)
(* bounds in ascending key order, and then the iterator is invalid; with   *)
(* no key within the bounds it is invalid from the start.                  *)
(***************************************************************************)
C19_MemTableScan ==
    cursor.kind = "mem" =>
        LET es == EntriesWithin(mems[1], cursor.lower, cursor.upper)
        IN  /\ cursor.nexts < Len(es) =>
                   /\ MemTableIterator_is_valid(cursor.it)
                   /\ <<Iter_key(cursor.it), Iter_value(cursor.it)>> = es[cursor.nexts + 1]
            /\ cursor.nexts = Len(es) => ~MemTableIterator_is_valid(cursor.it)

\* A scan of (Excluded(K1), Included(K2)) over a memtable of four entries
\* has yielded the entry of K2 and has ended.
C19_Witness ==
    /\ cursor.kind = "mem"
    /\ DOMAIN mems[1].map = AllKeys
    /\ cursor.lower = Excluded(K1) /\ cursor.upper = Included(K2)
    /\ cursor.nexts = 1
    /\ ~MemTableIterator_is_valid(cursor.it)

\* The keys block b (0-based) of the file of the table holds.
BlockKeys(b) == {e[1] : e \in BlockEntries(fs[table.sst.file].blocks[b + 1])}

\* The block the claim names for a probe key: the block that holds the key,
\* else the block of the smallest stored key above it, else the last block.
BlockFor(key) ==
    LET n == SsTable_num_of_blocks(table.sst)
        above == {k \in UNION {BlockKeys(b) : b \in 0..(n - 1)} : BytesLeq(key, k)}
    IN  IF above = {} THEN n - 1
        ELSE CHOOSE b \in 0..(n - 1) : MinKey(above) \in BlockKeys(b)

(***************************************************************************)
(* C18.  For an SST built from a sorted batch and a probe key k,           *)
(* find_block_idx(k) is the index of the block that contains k when k is   *)
(* stored; else the block that contains the smallest stored key greater    *)
(* than k; else, no stored key being greater, the last block.              *)
(***************************************************************************)
C18_FindBlockIdx ==
    cursor.kind = "find" => cursor.idx = BlockFor(cursor.key)

\* The probe K2 has been found inside block 0 of a table of two blocks, of
\* which it is not the first key.
C18_Witness ==
    /\ cursor.kind = "find" /\ cursor.key = K2 /\ cursor.idx = 0
    /\ SsTable_num_of_blocks(table.sst) = 2
    /\ BlockKeys(0) = {K1, K2}

(***************************************************************************)
(* C20.  Flushing a memtable loses and reorders nothing: for any memtable  *)
(* and block size, the iterator over the SST of to_sst(block_size) and     *)
(* build, from create_and_seek_to_first, yields exactly the entries of the *)
(* memtable, tombstones included, in ascending key order across the        *)
(* blocks, and then is invalid.                                            *)
(***************************************************************************)
C20_FlushKeepsEntries ==
    /\ table.state # "panic"
    /\ cursor.kind # "panic"
    /\ cursor.kind = "sst" =>
           LET es == MemTable_entries(mems[1])
           IN  IF cursor.nexts < Len(es)
               THEN /\ SsTableIterator_is_valid(cursor.it)
                    /\ <<Iter_key(cursor.it), Iter_value(cursor.it)>> = es[cursor.nexts + 1]
               ELSE ~SsTableIterator_is_valid(cursor.it)

(***************************************************************************)
(* C21: a put or delete that runs while a flush runs is not lost.  Once    *)
(* the flush has ended, get of a key returns what the last put that has    *)
(* returned wrote for it (nothing after a delete), also when the flush ran *)
(* between the put's capture of the state and its insert.                  *)
(***************************************************************************)
C21_PutSurvivesFlush ==
    threads.sync = "idle" =>
        \A key \in Keys :
            LsmStorage_get(inner, mems, fs, key) =
                IF hist[key].some /\ hist[key].v # <<>> THEN hist[key] ELSE None

\* A put has returned whose capture came before a flush and its insert after.
C21_Witness ==
    /\ threads.raced
    /\ threads.sync = "idle"
    /\ ~threads.put.some
    /\ ret.op = "put"
    /\ hist[K1] = Some(V1)
    /\ LsmStorage_get(inner, mems, fs, K1) = Some(V1)

(***************************************************************************)
(* C25: a flush holds the lock only while it swaps the state.  While it    *)
(* builds the SST and writes the file the lock is free, so that a get, put *)
(* or scan can take it between the start and the end of the flush.         *)
(***************************************************************************)
C25_FlushWritesUnlocked == threads.sync = "locked" => threads.lock = "free"

(***************************************************************************)
(* C22: a put that leaves the byte counter of the active memtable above    *)
(* the flush threshold gets the memtable rotated by the worker: the flush  *)
(* the worker runs for it moves the memtable to the immutable list, writes *)
(* it to a new L0 SST and leaves a fresh, empty active memtable, so that   *)
(* later puts send no flush signal.                                        *)
(***************************************************************************)
C22_WorkerFlushRotates ==
    [][\A io_ok \in BOOLEAN :
          (/\ mems[inner.memtable].size > FlushThreshold
           /\ worker' = "check"
           /\ WorkerSyncStep(io_ok))
             => /\ inner'.memtable # inner.memtable
                /\ mems'[inner'.memtable].size <= FlushThreshold
                /\ inner'.imm_memtables = Append(inner.imm_memtables, inner.memtable)
                /\ Len(inner'.l0_sstables) = Len(inner.l0_sstables) + 1]_vars

(***************************************************************************)
(* C23: flush signals are coalesced.  When the worker takes a flush        *)
(* message it drains every flush message that is pending with it, and one  *)
(* flush answers them all: none of them is left to cause a flush of its    *)
(* own.                                                                    *)
(***************************************************************************)
C23_FlushSignalsCoalesced ==
    [][(/\ worker = "recv"
        /\ chan # <<>>
        /\ Head(chan) = "flush"
        /\ worker' = "sync"
        /\ WorkerRecv)
          => \A i \in 1..Len(chan') : chan'[i] # "flush"]_vars

C26_WorkerSkipsFailedFlush ==
    [][(/\ LsmStorage_sync(inner, mems, fs, FALSE).res = "err"
        /\ WorkerSyncStep(FALSE))
          => /\ worker' \in {"check", "recv"}
             /\ UNCHANGED <<inner, mems, chan>>]_vars

(***************************************************************************)
(* C27: compact(level) reads and writes no level that does not exist.  On  *)
(* an engine whose levels vector is too short, as after open, the vector   *)
(* is grown and the compaction succeeds, with a place for its output in    *)
(* the level below the one compacted.                                      *)
(***************************************************************************)
C27_CompactGrowsLevels ==
    [][\A level \in 0..1 :
          CompactStep(level, TRUE)
             => ret'.res = "ok" /\ Len(inner'.levels) >= level + 1]_vars

(***************************************************************************)
(* C28: the drop of one handle of the engine, while other handles are in   *)
(* use, does not stop the worker: it does not exit on what the drop has    *)
(* sent, and goes on taking flush signals.                                 *)
(***************************************************************************)
C28_DropOfCloneKeepsWorker ==
    [][(/\ ret.op = "drop"
        /\ chan = <<"stop">>
        /\ worker = "recv"
        /\ WorkerRecv)
          => worker' # "exited"]_vars

\* What a merge of the inputs `ms` (memtables, the first of them first) is to
\* yield: every key of any of them once, in ascending order, with the value
\* of the first input that holds it.
MergedEntries(ms) ==
    LET ks == SortedKeys(UNION {DOMAIN ms[i].map : i \in 1..Len(ms)})
        first(k) == CHOOSE i \in 1..Len(ms) :
                        /\ k \in DOMAIN ms[i].map
                        /\ \A j \in 1..(i - 1) : k \notin DOMAIN ms[j].map
    IN  [n \in 1..Len(ks) |-> <<ks[n], ms[first(ks[n])].map[ks[n]]>>]

(***************************************************************************)
(* C29: TwoMergeIterator(A, B) over two sorted inputs yields every key of  *)
(* A or B once, in strictly ascending order, with A's value for a key of   *)
(* both, and is invalid after the last; no entry of B is passed over       *)
(* because the key A stands on is smaller.                                 *)
(***************************************************************************)
C29_TwoMergeYieldsUnion ==
    cursor.kind = "two" =>
        LET es == MergedEntries(mems)
        IN  /\ cursor.nexts < Len(es) =>
                   /\ TwoMergeIterator_is_valid(cursor.it)
                   /\ <<cursor.it.key, cursor.it.value>> = es[cursor.nexts + 1]
            /\ cursor.nexts = Len(es) => ~TwoMergeIterator_is_valid(cursor.it)

(***************************************************************************)
(* C30: MergeIterator over any inputs sorted by key, empty ones among      *)
(* them, yields every key of any input once, in ascending order, with the  *)
(* value of the input of the smallest index that holds the key, and is     *)
(* invalid exactly when every input is exhausted.                          *)
(***************************************************************************)
C30_MergeYieldsUnion ==
    cursor.kind = "merge" =>
        LET es == MergedEntries(mems)
        IN  /\ cursor.nexts < Len(es) =>
                   /\ MergeIterator_is_valid(cursor.it)
                   /\ <<MergeIterator_key(cursor.it), MergeIterator_value(cursor.it)>>
                          = es[cursor.nexts + 1]
            /\ cursor.nexts = Len(es) => ~MergeIterator_is_valid(cursor.it)

\* Of three inputs the first is empty, the second holds K1 and K2 and the
\* third K1 and K3: after K1 and K2 of the second, the merge stands on K3.
C30_Witness ==
    /\ cursor.kind = "merge"
    /\ Len(mems) = 3
    /\ DOMAIN mems[1].map = {}
    /\ DOMAIN mems[2].map = {K1, K2}
    /\ DOMAIN mems[3].map = {K1, K3}
    /\ cursor.nexts = 2
    /\ MergeIterator_is_valid(cursor.it)
    /\ MergeIterator_key(cursor.it) = K3

\* Whether the iterator of the cursor, a merge of either kind, is valid.
CursorValid ==
    IF cursor.kind = "merge" THEN MergeIterator_is_valid(cursor.it)
    ELSE TwoMergeIterator_is_valid(cursor.it)

(***************************************************************************)
(* C31: once is_valid() of a FusedIterator is false, next() is a no-op: it *)
(* returns Ok without a call of the next of the iterator it wraps, whose   *)
(* state is as before, and is_valid() is still false.                      *)
(***************************************************************************)
C31_FusedNextIsNoOp ==
    [][(/\ cursor.kind \in {"merge", "two"}
        /\ ~CursorValid
        /\ FusedNext)
          => cursor' = cursor]_vars

(***************************************************************************)
(* C32: for any SST and any bounds, the iterator of by_range(sst, lower,   *)
(* upper) yields exactly the entries of the SST whose key is within both   *)
(* bounds, in ascending order.  It is never valid on a key beyond the      *)
(* upper bound, and an excluded lower bound that is the last key of a      *)
(* block lets it go on with the first entry of the next block.             *)
(***************************************************************************)
C32_ByRangeYieldsRange ==
    cursor.kind = "range" =>
        LET es == EntriesWithin(mems[1], cursor.lower, cursor.upper)
        IN  /\ cursor.nexts < Len(es) =>
                   /\ SsTableIterator_is_valid(cursor.it)
                   /\ <<Iter_key(cursor.it), Iter_value(cursor.it)>> = es[cursor.nexts + 1]
            /\ cursor.nexts = Len(es) => ~SsTableIterator_is_valid(cursor.it)

(***************************************************************************)
(* C33: once is_valid() of an SsTableIterator is false, because of the     *)
(* upper bound, the end of the last block or a seek that found no entry,   *)
(* it is false after any number of further calls of next().                *)
(***************************************************************************)
C33_InvalidStaysInvalid ==
    cursor.kind = "over" => ~cursor.panic /\ ~SsTableIterator_is_valid(cursor.it)

(***************************************************************************)
(* C34: after create_and_seek_to_key(sst, k), or seek_to_key(k) on an      *)
(* iterator that stands anywhere, the iterator stands on the first entry   *)
(* of the whole SST with a key >= k, and is invalid if there is none; the  *)
(* calls of next then yield exactly the rest of the SST in ascending       *)
(* order, across the end of the block the seek landed in.                  *)
(***************************************************************************)
C34_SeekToKeyYieldsTail ==
    cursor.kind = "seek" =>
        LET es == EntriesWithin(mems[1], Included(cursor.key), Unbounded)
        IN  /\ cursor.nexts < Len(es) =>
                   /\ SsTableIterator_is_valid(cursor.it)
                   /\ <<Iter_key(cursor.it), Iter_value(cursor.it)>> = es[cursor.nexts + 1]
            /\ cursor.nexts = Len(es) => ~SsTableIterator_is_valid(cursor.it)

(***************************************************************************)
(* C35: on a block of one or more entries with distinct keys in ascending  *)
(* order, BlockIterator::seek_to_key(k) stands on the first entry whose    *)
(* key is >= k, with the key and the value of that entry, and is invalid   *)
(* exactly when every key of the block is smaller than k.                  *)
(***************************************************************************)
C35_BlockSeekToKey ==
    (cursor.kind = "sought" /\ SortedEntries(BlockSeq(cursor.it.block))) =>
        LET es == BlockSeq(cursor.it.block)
            ge == {i \in 1..Len(es) : BytesLeq(cursor.key, es[i][1])}
        IN  IF ge = {} THEN ~BlockIterator_is_valid(cursor.it)
            ELSE /\ BlockIterator_is_valid(cursor.it)
                 /\ <<cursor.it.key, cursor.it.value>> =
                        es[CHOOSE i \in ge : \A j \in ge : i <= j]

\* A block of K1 and K3 sought for K2, which it does not hold: the iterator
\* stands on K3.
C35_Witness ==
    /\ cursor.kind = "sought"
    /\ cursor.key = K2
    /\ BlockSeq(cursor.it.block) = <<<<K1, V1>>, <<K3, V1>>>>
    /\ cursor.it.key = K3
    /\ cursor.it.value = V1
    /\ cursor.it.idx = 1

\* C36: BlockBuilder::add on a builder that holds entries returns false and
\* leaves the builder as it was exactly when the encoded size after the add
\* (the data bytes with the new entry, 2 bytes for every offset with the new
\* one, the count and the checksum) exceeds cap; otherwise it returns true
\* and appends the entry and its offset.
C36_AddRefusesAtCap ==
    (cursor.kind = "add" /\ ~BlockBuilder_is_empty(cursor.before)) =>
        LET b == cursor.before
            len == 2 + Len(cursor.key) + 2 + Len(cursor.value)
            encoded == Len(b.data) + len + 2 * (Len(b.offsets) + 1)
                           + COUNT_SIZE + CHECKSUM_SIZE
        IN  IF encoded > b.cap
            THEN ~cursor.ok /\ cursor.after = b
            ELSE /\ cursor.ok
                 /\ Len(cursor.after.offsets) = Len(b.offsets) + 1
                 /\ BlockSeq(BlockBuilder_build(cursor.after)) =
                        Append(BlockSeq(BlockBuilder_build(b)),
                               <<cursor.key, cursor.value>>)

\* C37: BlockBuilder::add on a builder without entries returns true and
\* stores the entry, whatever the size of the entry and the capacity.
C37_EmptyBuilderAccepts ==
    (cursor.kind = "add" /\ BlockBuilder_is_empty(cursor.before)) =>
        /\ cursor.ok
        /\ BlockSeq(BlockBuilder_build(cursor.after)) =
               <<<<cursor.key, cursor.value>>>>

\* The entries an SsTableBuilder holds: those of its finalised blocks, then
\* those of the block in the making.
RECURSIVE BlocksEntries(_)
BlocksEntries(blocks) ==
    IF blocks = <<>> THEN <<>>
    ELSE BlockSeq(Head(blocks)) \o BlocksEntries(Tail(blocks))

BuilderEntries(sb) ==
    BlocksEntries(sb.blocks) \o BlockSeq(BlockBuilder_build(sb.builder))

\* C38: every SsTableBuilder::add that to_sst makes returns: it finalises at
\* most one block and no block without entries, and afterwards the builder
\* holds the entries it held and the new one once, the new one as the first
\* entry of a fresh block when a block was finalised.
C38_TableAddStoresOnce ==
    (table # None /\ table.state \in {"built", "panic"}) =>
        LET es == MemTable_entries(mems[1])
        IN  \A n \in 1..Len(es) :
                LET before == AddAll([panic |-> FALSE,
                                      sb |-> SsTableBuilder_new(table.block_size)],
                                     SubSeq(es, 1, n - 1))
                    r == SsTableBuilder_add(before.sb, es[n][1], es[n][2])
                IN  ~before.panic =>
                        /\ ~r.panic
                        /\ Len(r.sb.blocks) <= Len(before.sb.blocks) + 1
                        /\ \A i \in 1..Len(r.sb.blocks) : r.sb.blocks[i].offsets # <<>>
                        /\ BuilderEntries(r.sb) = Append(BuilderEntries(before.sb), es[n])
                        /\ Len(r.sb.blocks) > Len(before.sb.blocks) =>
                               BlockSeq(BlockBuilder_build(r.sb.builder)) = <<es[n]>>

C40_WalRoundTrip ==
    cursor.kind = "wal" =>
        /\ ~cursor.panic
        /\ DOMAIN cursor.mem.map = {k \in AllKeys : hist[k].some}
        /\ \A k \in DOMAIN cursor.mem.map : cursor.mem.map[k] = hist[k].v

============================================================================
